---- MODULE Spec2Model ----
(***************************************************************************)
(* nvshare: the scheduler daemon (src/src/scheduler.c) with its timer      *)
(* thread, the client library (src/src/client.c, src/src/hook.c) and the   *)
(* command line tool nvsharectl (src/src/cli.c).                           *)
(*                                                                         *)
(* A connection is named by its file descriptor.  The daemon's handlers    *)
(* are written as operators from a daemon state record to a daemon state   *)
(* record, one per C function, and every action applies one whole handler  *)
(* (one event of the epoll loop, or one wake-up of the timer thread, both  *)
(* of which run with global_mutex held).                                   *)
(***************************************************************************)
EXTENDS Integers, Sequences, FiniteSets, TLC

(* ------------------------------ bounds -------------------------------- *)
\* number of file descriptors the daemon can hand out to accepted peers
NConn == 2
\* scheduling_round is capped: the lock is granted at most MaxRound times
MaxRound == 2
\* the positive quanta a SET_TQ may carry are 1..MaxTQ
MaxTQ == 2
\* device pointers are 1..MaxPtr: at most MaxPtr allocations are live at a time
MaxPtr == 3
\* size_t has MemBits bits, and sizes are counted in units of MemUnitMiB MiB
MemBits == 4
MemUnitMiB == 768
\* the driver backs at most DriverCapacity units of managed memory
DriverCapacity == 12
\* the fds in use in the specification with time
NTimed == 2
\* application threads of the client process
NThreads == 2
\* frames in flight in one direction of the client's connection
MaxChan == 2
\* the count of consecutive short synchronizations stops at MaxFast
MaxFast == 12
\* kernel launches of a run of the client process with its rate control
MaxKernels == 2

(* ------------------------- program constants -------------------------- *)
NVSHARE_DEFAULT_TQ == 30
MEMINFO_RESERVE_MIB == 1536
NVSHARE_UNREGISTERED_ID == "F00DF00DF00DF00D"

REGISTER == "REGISTER"
SCHED_ON == "SCHED_ON"
SCHED_OFF == "SCHED_OFF"
REQ_LOCK == "REQ_LOCK"
LOCK_OK == "LOCK_OK"
DROP_LOCK == "DROP_LOCK"
LOCK_RELEASED == "LOCK_RELEASED"
SET_TQ == "SET_TQ"
\* a full frame whose type field is none of the eight above
UNKNOWN == "UNKNOWN"

Conns == 1..NConn
Threads == 1..NThreads
NoConn == 0

\* the values nvshare_generate_id can return besides the sentinel
RandIds == <<"0000000000000001", "0000000000000002", "0000000000000003",
             "0000000000000004", "0000000000000005", "0000000000000006">>

VARIABLES
    \* ---- scheduler.c globals
    clients,            \* list of client records, as the sequence of their fds
    id,                 \* id[fd]: the client record's id
    requests,           \* list of request records, as the sequence of their clients' fds
    lock_held,
    must_reset_timer,
    scheduler_on,
    tq,
    scheduling_round,
    \* ---- timer_thr_fn locals and position
    round_at_start,
    drop_lock_sent,
    timer_left,         \* timer_end_ts minus the current time, never below 0
    tpc,                \* "wait": in pthread_cond_timedwait; "timedout"/"signaled": woken, about to run
    \* ---- sockets
    conn,               \* conn[fd]: "free" | "open" | "closed" (the peer has closed its end)
    out,                \* the messages the daemon sent in the last step, in order
    event,              \* the event the last step handled: <<type, fd>>
    \* ---- observation of the run
    tenant,             \* the client the most recent LOCK_OK was sent to, until its tenure ends
    pend,               \* clients with an accepted REQ_LOCK not yet granted, in order of acceptance
    early,              \* time to go until tq seconds have passed since the tenant's LOCK_OK
    due,                \* time to go until tq seconds have passed since the later of the
                        \* tenant's LOCK_OK and the last accepted SET_TQ (-1: they have passed)
    drops,              \* DROP_LOCK messages sent to the tenant in this tenure (capped at 2)
    \* ---- client.c: one client process
    cstate,             \* "none": not started; "init": in client_fn, before the initial
                        \* status; "run"; "dead": the process has exited
    cfd,                \* the daemon's fd of the client's connection, NoConn once evicted
    to_sched,           \* frames the client wrote that the daemon has not read, by type
    to_client,          \* frames the daemon wrote that the client has not read, by type
    c_scheduler_on,     \* client.c: scheduler_on
    own_lock,
    need_lock,
    did_work,
    apc,                \* apc[t]: "idle" | "wait" (in pthread_cond_wait of continue_with_lock)
                        \*       | "passed" (continue_with_lock has returned, the real
                        \*         driver call is not made yet)
    inflight,           \* 1: work submitted to the GPU has not completed
    since_drop,         \* "none" | "handled": the worker has handled a DROP_LOCK with
                        \* own_lock = 1 (and sent LOCK_RELEASED) and no LOCK_OK since
                        \* | "off": ... and it has handled a SCHED_OFF after that
    \* ---- hook.c: the memory hooks of one application
    hpc,                \* "unloaded" | "ready": initialize_libnvshare and bootstrap_cuda ran
    enable_single_oversub,
    got_max_mem_size,
    nvshare_size_mem_allocatable,
    sum_allocated,
    cuda_allocation_list,   \* sequence of [ptr, size]
    dev,                \* the driver: dev[p] is the size of the live allocation at p, or 0
    mcall,              \* the last hooked call: [op, size, ret, driver], driver: the
                        \* real driver entry point was called
    \* ---- cli.c: one run of nvsharectl
    kpc,                \* "none" | "parse" | "status" | "tq" | "help" | "exited"
    argv,               \* the command line: [S, T, h], S: the value of -S or "absent";
                        \* T: [form, text], form "short" (-T text), "long"
                        \* (--set-tq=text) or "absent"; h: -h is given
    config,             \* SimpleConfig
    actions_done,
    cli_sent,           \* the frames written to the daemon's socket, in order
    cli_failed,         \* what has failed in this run: "args", "connect", "send"
    cli_help,           \* xopt_autohelp has printed the usage
    cli_exit,           \* the exit status, -1 while the process runs
    \* ---- client.c: release_early_fn's position and clock
    rpc,                \* "off": not started; "wait": in pthread_cond_timedwait;
                        \* "timedout"/"signaled": woken, about to run
    rel_left,           \* timer_end_ts minus the current time, never below 0
    quiet,              \* time since the worker last handled a LOCK_OK or
                        \* continue_with_lock last returned (capped at the interval)
    armed,              \* time since release_early_fn computed timer_end_ts (capped
                        \* one above the interval)
    yielded,            \* 1: the idle releaser has sent LOCK_RELEASED, and the worker
                        \* has handled no LOCK_OK since
    \* ---- hook.c: the kernel submission rate control of cuLaunchKernel
    kern_since_sync,
    pending_kernel_window,
    kcount_mutex,       \* the thread that holds kcount_mutex, or NoThread
    lpc,                \* lpc[t]: "idle" | "launched" (real_cuLaunchKernel has been
                        \* called) | "sync" (in real_cuCtxSynchronize) | "store" (the
                        \* new window is computed and not yet stored)
    new_window,         \* new_window[t]: the window thread t is about to store
    launched_since_sync,          \* kernels launched since the last synchronization forced by
                        \* the window
    kwrite,             \* the write to the two variables above by the last step of
                        \* the rate control: [by, held], held: the writer holds
                        \* kcount_mutex
    fast_syncs,         \* the synchronizations shorter than the step-down threshold
                        \* that made the window what it is out of a window of 1
                        \* (capped at MaxFast), -1 when a longer one came between
    fast_next,          \* the value of fast_syncs that goes with new_window
    launches,           \* kernels launched so far, counted up to MaxKernels
    spc,                \* the thread inside the cuCtxSynchronize of
                        \* cuda_sync_context, with global_mutex held: "none" |
                        \* "worker" (client_fn, DROP_LOCK) | "releaser"
    \* ---- scheduler.c: main's batch of epoll events
    batch,              \* the fds of the client records the events of the batch
                        \* point at that the for loop has not come to yet
    crashed,            \* the daemon has ended abnormally
    \* ---- client.c, one process for each connection
    procs               \* procs[c]: the client process connected as fd c: its
                        \* state, scheduler_on, own_lock, need_lock, the frames
                        \* written to it and not read (rx), the frames it has
                        \* written that the daemon has not read (tx); and, for
                        \* observation, the count of LOCK_OK frames it has read
                        \* (oks), that count at its last LOCK_RELEASED
                        \* (last_rel) and at each LOCK_RELEASED in tx (rel)

dvars == <<clients, id, requests, lock_held, must_reset_timer, scheduler_on, tq,
           scheduling_round>>
tvars == <<round_at_start, drop_lock_sent, timer_left, tpc>>
gvars == <<tenant, pend, early, due, drops>>
cvars == <<cstate, cfd, to_sched, to_client, c_scheduler_on, own_lock, need_lock,
           did_work, apc, inflight, since_drop>>
hvars == <<hpc, enable_single_oversub, got_max_mem_size, nvshare_size_mem_allocatable,
           sum_allocated, cuda_allocation_list, dev, mcall>>
kvars == <<kpc, argv, config, actions_done, cli_sent, cli_failed, cli_help, cli_exit>>
rvars == <<rpc, rel_left, quiet, armed, yielded>>
wvars == <<kern_since_sync, pending_kernel_window, kcount_mutex, lpc, new_window,
           launched_since_sync, kwrite, fast_syncs, fast_next, launches, spc>>
bvars == <<batch, crashed>>
vars == <<dvars, tvars, conn, out, event, gvars, cvars, hvars, kvars, rvars, wvars, bvars,
         procs>>

(* ------------------------------ helpers ------------------------------- *)
Range(s) == {s[i] : i \in DOMAIN s}
Remove(s, x) == SelectSeq(s, LAMBDA e : e # x)
Max(a, b) == IF a > b THEN a ELSE b
Min(a, b) == IF a < b THEN a ELSE b

(* The daemon's state as one record, so that the handlers compose. *)
DS ==
    [clients |-> clients, id |-> id, requests |-> requests, lock_held |-> lock_held,
     must_reset_timer |-> must_reset_timer, scheduler_on |-> scheduler_on, tq |-> tq,
     scheduling_round |-> scheduling_round, tpc |-> tpc, conn |-> conn, out |-> <<>>]

SetD(s) ==
    /\ clients' = s.clients
    /\ id' = s.id
    /\ requests' = s.requests
    /\ lock_held' = s.lock_held
    /\ must_reset_timer' = s.must_reset_timer
    /\ scheduler_on' = s.scheduler_on
    /\ tq' = s.tq
    /\ scheduling_round' = s.scheduling_round
    /\ conn' = s.conn
    /\ out' = s.out

(* ------------------------- scheduler.c handlers ----------------------- *)
has_registered(s, c) == s.id[c] # NVSHARE_UNREGISTERED_ID

\* pthread_cond_broadcast(&timer_cv): wakes the timer thread if it is waiting
timer_cv_broadcast(s) ==
    [s EXCEPT !.tpc = IF @ = "wait" THEN "signaled" ELSE @]

\* remove_req without the test of the head: lock_held is left as it is
remove_req_keeps_lock(s, c) == [s EXCEPT !.requests = Remove(@, c)]

remove_req(s, c) ==
    [s EXCEPT !.lock_held = IF s.requests # <<>> /\ Head(s.requests) = c THEN 0 ELSE @,
              !.requests = Remove(@, c)]

delete_client(s, c) ==
    LET s1 == remove_req(s, c)
    IN [s1 EXCEPT !.clients = Remove(@, c),
                  !.id[c] = NVSHARE_UNREGISTERED_ID,
                  !.conn[c] = "free"]

\* insert_req with LL_PREPEND in the place of LL_APPEND
insert_req_front(s, c) ==
    IF c \in Range(s.requests) THEN s
    ELSE [s EXCEPT !.requests = <<c>> \o @]

\* insert_req without the LL_FOREACH search for an existing record
insert_req_always(s, c) == [s EXCEPT !.requests = Append(@, c)]

insert_req(s, c) ==
    IF c \in Range(s.requests) THEN s
    ELSE [s EXCEPT !.requests = Append(@, c)]

\* nvshare_send_noblock writes the whole frame: the peer's end is still open
\* (a peer that is gone makes write() fail with EPIPE or ECONNRESET)
SendOk(s, c) == s.conn[c] = "open"

\* send_message: the state after the send, when it succeeds
send_message(s, c, type) ==
    [s EXCEPT !.out = Append(@, [type |-> type, to |-> c, lh |-> s.lock_held])]

\* try_schedule without scheduling_round++
RECURSIVE try_schedule_same_round(_)
try_schedule_same_round(s) ==
    IF s.requests = <<>> THEN s
    ELSE LET h == Head(s.requests)
         IN IF ~SendOk(s, h) THEN try_schedule_same_round(delete_client(s, h))
            ELSE LET s1 == send_message(s, h, LOCK_OK)
                 IN timer_cv_broadcast(
                        [s1 EXCEPT !.lock_held = 1, !.must_reset_timer = 1])

RECURSIVE try_schedule(_)
try_schedule(s) ==
    IF s.requests = <<>> THEN s
    ELSE LET h == Head(s.requests)
         IN IF ~SendOk(s, h) THEN try_schedule(delete_client(s, h))
            ELSE LET s1 == send_message(s, h, LOCK_OK)
                 IN timer_cv_broadcast(
                        [s1 EXCEPT !.scheduling_round = @ + 1,
                                   !.lock_held = 1,
                                   !.must_reset_timer = 1])

\* the "again:" loop without the LL_FOREACH search for a clashing id
IdClash_sentinel_only(s, i) == i = NVSHARE_UNREGISTERED_ID

\* the "again:" loop of register_client: the first value of the rand() stream
\* that is neither the sentinel nor the id of a client in the table
IdClash(s, i) == i = NVSHARE_UNREGISTERED_ID \/ \E c \in Range(s.clients) : s.id[c] = i
RECURSIVE first_fresh_id(_, _)
first_fresh_id(s, stream) ==
    IF ~IdClash(s, Head(stream)) THEN Head(stream) ELSE first_fresh_id(s, Tail(stream))

\* register_client: its return value and the state it leaves
register_client(s, c, stream) ==
    IF has_registered(s, c) THEN [ret |-> -1, s |-> s]
    ELSE LET s1 == [s EXCEPT !.id[c] = first_fresh_id(s, stream)]
             st == IF s.scheduler_on = 1 THEN SCHED_ON ELSE SCHED_OFF
         IN IF SendOk(s1, c) THEN [ret |-> 0, s |-> send_message(s1, c, st)]
            ELSE [ret |-> -1, s |-> s1]

\* bcast_status with the walk over the table ending at the first client the
\* send fails for
RECURSIVE bcast_from_stops(_, _)
bcast_from_stops(s, todo) ==
    IF todo = <<>> THEN s
    ELSE LET c == Head(todo)
             st == IF s.scheduler_on = 1 THEN SCHED_ON ELSE SCHED_OFF
         IN IF ~has_registered(s, c) THEN bcast_from_stops(s, Tail(todo))
            ELSE IF SendOk(s, c) THEN bcast_from_stops(send_message(s, c, st), Tail(todo))
            ELSE delete_client(s, c)

RECURSIVE bcast_from(_, _)
bcast_from(s, todo) ==
    IF todo = <<>> THEN s
    ELSE LET c == Head(todo)
             st == IF s.scheduler_on = 1 THEN SCHED_ON ELSE SCHED_OFF
             s1 == IF ~has_registered(s, c) THEN s
                   ELSE IF SendOk(s, c) THEN send_message(s, c, st)
                   ELSE delete_client(s, c)
         IN bcast_from(s1, Tail(todo))

\* a status change that is not broadcast
bcast_status_none(s) == s

bcast_status(s) == bcast_from(s, s.clients)

(* strtoll(data, &endptr, 0) on the NUL-terminated data field: the number of
   characters consumed (0 when no digits were found: endptr = data) and the
   value.  Base 0: a leading "0x" selects base 16, a leading "0" base 8. *)
DigitChars == <<"0", "1", "2", "3", "4", "5", "6", "7", "8", "9",
                "a", "b", "c", "d", "e", "f">>
DigitVal(ch) == (CHOOSE i \in DOMAIN DigitChars : DigitChars[i] = ch) - 1
IsDigit(ch, base) ==
    /\ \E i \in DOMAIN DigitChars : DigitChars[i] = ch
    /\ DigitVal(ch) < base

RECURSIVE SkipSpace(_, _)
SkipSpace(data, i) ==
    IF i <= Len(data) /\ data[i] = " " THEN SkipSpace(data, i + 1) ELSE i

RECURSIVE ParseDigits(_, _, _, _)
ParseDigits(data, i, base, acc) ==
    IF i <= Len(data) /\ IsDigit(data[i], base)
    THEN ParseDigits(data, i + 1, base, acc * base + DigitVal(data[i]))
    ELSE [end |-> i - 1, val |-> acc]

strtoll(data) ==
    LET i0 == SkipSpace(data, 1)
        neg == i0 <= Len(data) /\ data[i0] = "-"
        i1 == IF i0 <= Len(data) /\ data[i0] \in {"-", "+"} THEN i0 + 1 ELSE i0
        hex == /\ i1 + 2 <= Len(data) /\ data[i1] = "0" /\ data[i1 + 1] \in {"x", "X"}
               /\ IsDigit(data[i1 + 2], 16)
        base == IF hex THEN 16
                ELSE IF i1 <= Len(data) /\ data[i1] = "0" THEN 8 ELSE 10
        r == ParseDigits(data, IF hex THEN i1 + 2 ELSE i1, base, 0)
        none == r.end < (IF hex THEN i1 + 2 ELSE i1)
    IN IF none THEN [end |-> 0, val |-> 0]
       ELSE [end |-> r.end, val |-> IF neg THEN -r.val ELSE r.val]

\* the test process_msg applies to the result of strtoll
WellFormedTQ(data) == strtoll(data).end # 0 /\ strtoll(data).end = Len(data)

\* process_msg, case REGISTER
on_register(s, c, stream) ==
    LET r == register_client(s, c, stream)
    IN IF r.ret < 0 THEN delete_client(r.s, c) ELSE r.s

\* case SCHED_ON without the test that the status changes
on_sched_on_always(s) == bcast_status([s EXCEPT !.scheduler_on = 1])

\* process_msg, case SCHED_ON
on_sched_on(s) ==
    IF s.scheduler_on = 0
    THEN bcast_status([s EXCEPT !.scheduler_on = 1])
    ELSE s

\* case SCHED_OFF without the emptying of the requests list
on_sched_off_keeps_queue(s) ==
    IF s.scheduler_on = 1
    THEN bcast_status([s EXCEPT !.scheduler_on = 0])
    ELSE s

\* process_msg, case SCHED_OFF
on_sched_off(s) ==
    IF s.scheduler_on = 1
    THEN LET s1 == bcast_status([s EXCEPT !.scheduler_on = 0])
         IN [s1 EXCEPT !.requests = <<>>, !.lock_held = 0]
    ELSE s

\* process_msg, case SET_TQ
on_set_tq(s, data) ==
    IF WellFormedTQ(data)
    THEN timer_cv_broadcast([s EXCEPT !.tq = strtoll(data).val,
                                      !.must_reset_timer = 1])
    ELSE s

\* process_msg, case REQ_LOCK
\* case REQ_LOCK without the has_registered test
on_req_lock_any(s, c) ==
    IF s.scheduler_on = 1
    THEN LET s1 == insert_req(s, c)
         IN IF s1.lock_held = 0 THEN try_schedule(s1) ELSE s1
    ELSE s

on_req_lock(s, c) ==
    IF has_registered(s, c)
    THEN IF s.scheduler_on = 1
         THEN LET s1 == insert_req(s, c)
              IN IF s1.lock_held = 0 THEN try_schedule(s1) ELSE s1
         ELSE s
    ELSE delete_client(s, c)

\* process_msg, case LOCK_RELEASED
on_lock_released(s, c) ==
    IF has_registered(s, c)
    THEN IF s.scheduler_on = 1
         THEN LET s1 == remove_req(s, c)
              IN IF s1.lock_held = 0 THEN try_schedule(s1) ELSE s1
         ELSE s
    ELSE delete_client(s, c)

\* main with the test of EPOLLERR | EPOLLHUP ahead of the test of EPOLLIN: the
\* frame of a peer that has hung up is not read
process_msg_hup_first(s, c, m, stream) ==
    IF s.conn[c] = "closed" THEN delete_client(s, c)
    ELSE CASE m.type = REGISTER -> on_register(s, c, stream)
           [] m.type = SCHED_ON -> on_sched_on(s)
           [] m.type = SCHED_OFF -> on_sched_off(s)
           [] m.type = SET_TQ -> on_set_tq(s, m.data)
           [] m.type = REQ_LOCK -> on_req_lock(s, c)
           [] m.type = LOCK_RELEASED -> on_lock_released(s, c)
           [] OTHER -> s

process_msg(s, c, m, stream) ==
    CASE m.type = REGISTER -> on_register(s, c, stream)
      [] m.type = SCHED_ON -> on_sched_on(s)
      [] m.type = SCHED_OFF -> on_sched_off(s)
      [] m.type = SET_TQ -> on_set_tq(s, m.data)
      [] m.type = REQ_LOCK -> on_req_lock(s, c)
      [] m.type = LOCK_RELEASED -> on_lock_released(s, c)
      [] OTHER -> s

\* the eviction without the call of try_schedule that follows it
evict_only(s, c) == delete_client(s, c)

\* main: receive_message failed, or the event carries only EPOLLERR | EPOLLHUP
evict_and_schedule(s, c) ==
    LET s1 == delete_client(s, c)
    IN IF s1.lock_held = 0 /\ s1.scheduler_on = 1 THEN try_schedule(s1) ELSE s1

(* ------------------------- the timer thread --------------------------- *)
\* top of the while (1) loop of timer_thr_fn, up to pthread_cond_timedwait:
\* a deadline that is not in the future times out at once
TimerArm(s, dls) ==
    /\ s.scheduling_round <= MaxRound
    /\ SetD([s EXCEPT !.must_reset_timer = 0])
    /\ round_at_start' = s.scheduling_round
    /\ timer_left' = Max(s.tq, 0)
    /\ drop_lock_sent' = dls
    /\ tpc' = "wait"

(* ----------------------- observation of the run ----------------------- *)
Evicted(s1) == {c \in Conns : conn[c] # "free" /\ s1.conn[c] = "free"}
Granted(s1) == {s1.out[i].to : i \in {j \in DOMAIN s1.out : s1.out[j].type = LOCK_OK}}
NDrops(s1) == Cardinality({j \in DOMAIN s1.out : s1.out[j].type = DROP_LOCK})

\* ev: the event the daemon handled, [from, type, data]
Observe(s1, ev) ==
    LET c == ev.from
        accepted == /\ ev.type = REQ_LOCK /\ id[c] # NVSHARE_UNREGISTERED_ID
                    /\ scheduler_on = 1 /\ c \notin Range(pend) /\ c # tenant
        off == ev.type = SCHED_OFF /\ scheduler_on = 1
        released == /\ ev.type = LOCK_RELEASED
                    /\ id[c] # NVSHARE_UNREGISTERED_ID /\ scheduler_on = 1
        newtq == ev.type = SET_TQ /\ WellFormedTQ(ev.data)
        p1 == IF accepted THEN Append(pend, c) ELSE pend
        g == Granted(s1)
        ten == IF g # {} THEN CHOOSE x \in g : TRUE
               ELSE IF off \/ (released /\ c = tenant) \/ tenant \in Evicted(s1) THEN NoConn
               ELSE tenant
    IN /\ event' = <<ev.type, ev.from>>
       /\ pend' = IF off THEN <<>>
                  ELSE SelectSeq(p1, LAMBDA x : /\ x \notin Evicted(s1) /\ x \notin g
                                                /\ ~(released /\ x = c))
       /\ tenant' = ten
       /\ early' = IF ten = NoConn THEN 0
                   ELSE IF g # {} THEN s1.tq
                   ELSE Max(-MaxTQ, early + (s1.tq - tq))
       /\ due' = IF ten = NoConn THEN 0
                 ELSE IF g # {} \/ newtq THEN s1.tq
                 ELSE due
       /\ drops' = IF g # {} \/ ten = NoConn THEN 0 ELSE Min(2, drops + NDrops(s1))

(* ------------------------------ inputs -------------------------------- *)
\* what a peer can put in the data field of a SET_TQ
TQData == {<<DigitChars[n + 1]>> : n \in 1..MaxTQ}

PeerMsgs ==
    [type : {REGISTER, SCHED_ON, SCHED_OFF, REQ_LOCK, LOCK_RELEASED, UNKNOWN}, data : {<<>>}]
    \cup [type : {SET_TQ}, data : {<<"3", "0">>, <<>>, <<"2", "x">>}]

\* the frames of the specification with time
TimedMsgs ==
    [type : {REGISTER, REQ_LOCK, LOCK_RELEASED}, data : {<<>>}]
    \cup [type : {SET_TQ}, data : TQData]

\* what rand() yields while the daemon registers the peer on fd c: the sentinel,
\* the ids in use, and then an id nobody has
RandStream(c) ==
    <<NVSHARE_UNREGISTERED_ID>>
    \o SelectSeq(RandIds, LAMBDA i : \E k \in Range(clients) : id[k] = i)
    \o <<RandIds[c]>>

\* the device pointers the driver can return
Ptrs == 1..MaxPtr

\* no thread holds kcount_mutex; no write to the rate control in the last step
NoThread == 0
NoWrite == [by |-> "none", held |-> TRUE]

\* no hooked call has been made yet
NoCall == [op |-> "none", size |-> 0, ret |-> "none", driver |-> FALSE]

\* nvsharectl has not been started
NoArgs == [S |-> "absent", T |-> [form |-> "absent", text |-> <<>>], h |-> FALSE]
\* no client process at a connection
NoProc == [state |-> "none", scheduler_on |-> 0, own_lock |-> 0, need_lock |-> 0,
           rx |-> <<>>, tx |-> <<>>, oks |-> 0, last_rel |-> 0, rel |-> <<>>]
NoConfig == [cmdline_scheduler_tq |-> 0, cmdline_anti_thrash |-> "NULL", help |-> FALSE]

\* the cap on scheduling_round: a step that would grant the lock once more
\* than MaxRound times is not taken
Capped(s) == s.scheduling_round <= MaxRound

(* ------------------------------ actions ------------------------------- *)
Init ==
    /\ clients = <<>>
    /\ id = [c \in Conns |-> NVSHARE_UNREGISTERED_ID]
    /\ requests = <<>>
    /\ lock_held = 0
    /\ must_reset_timer = 0
    /\ scheduler_on = 1
    /\ tq = NVSHARE_DEFAULT_TQ
    /\ scheduling_round = 0
    /\ round_at_start = 0
    /\ drop_lock_sent = 0
    /\ timer_left = NVSHARE_DEFAULT_TQ
    /\ tpc = "wait"
    /\ conn = [c \in Conns |-> "free"]
    /\ out = <<>>
    /\ event = <<"none", NoConn>>
    /\ tenant = NoConn
    /\ pend = <<>>
    /\ early = 0
    /\ due = 0
    /\ drops = 0
    /\ cstate = "none"
    /\ cfd = NoConn
    /\ to_sched = <<>>
    /\ to_client = <<>>
    /\ c_scheduler_on = 0
    /\ own_lock = 0
    /\ need_lock = 0
    /\ did_work = 0
    /\ apc = [t \in Threads |-> "idle"]
    /\ inflight = 0
    /\ since_drop = "none"
    /\ hpc = "unloaded"
    /\ enable_single_oversub = 0
    /\ got_max_mem_size = 0
    /\ nvshare_size_mem_allocatable = 0
    /\ sum_allocated = 0
    /\ cuda_allocation_list = <<>>
    /\ dev = [p \in Ptrs |-> 0]
    /\ mcall = NoCall
    /\ kpc = "none"
    /\ argv = NoArgs
    /\ config = NoConfig
    /\ actions_done = 0
    /\ cli_sent = <<>>
    /\ cli_failed = {}
    /\ cli_help = FALSE
    /\ cli_exit = -1
    /\ rpc = "off"
    /\ rel_left = 0
    /\ quiet = 0
    /\ armed = 0
    /\ yielded = 0
    /\ kern_since_sync = 0
    /\ pending_kernel_window = 1
    /\ kcount_mutex = NoThread
    /\ lpc = [t \in Threads |-> "idle"]
    /\ new_window = [t \in Threads |-> 0]
    /\ launched_since_sync = 0
    /\ kwrite = NoWrite
    /\ fast_syncs = 0
    /\ fast_next = 0
    /\ launches = 0
    /\ spc = "none"
    /\ batch = <<>>
    /\ crashed = FALSE
    /\ procs = [c \in Conns |-> NoProc]

\* main: the listening socket is readable; accept4 returns the lowest free fd
Accept(c) ==
    /\ conn[c] = "free"
    /\ \A k \in 1..(c - 1) : conn[k] # "free"
    /\ clients' = Append(clients, c)
    /\ id' = [id EXCEPT ![c] = NVSHARE_UNREGISTERED_ID]
    /\ conn' = [conn EXCEPT ![c] = "open"]
    /\ out' = <<>>
    /\ event' = <<"none", NoConn>>
    /\ UNCHANGED <<requests, lock_held, must_reset_timer, scheduler_on, tq,
                   scheduling_round, tvars, gvars>>

\* main: EPOLLIN on a client socket and receive_message returns a full frame
\* (a peer that has closed its end may have written frames before it did)
Recv(c, m) ==
    /\ conn[c] # "free"
    /\ LET s1 == process_msg(DS, c, m, RandStream(c))
       IN /\ Capped(s1)
          /\ SetD(s1)
          /\ tpc' = s1.tpc
          /\ Observe(s1, [from |-> c, type |-> m.type, data |-> m.data])
    /\ UNCHANGED <<round_at_start, drop_lock_sent, timer_left>>

\* main: EPOLLIN and receive_message fails (the peer closed, or a partial frame)
RecvFail(c) ==
    /\ conn[c] # "free"
    /\ LET s1 == evict_and_schedule(DS, c)
       IN /\ Capped(s1)
          /\ SetD(s1)
          /\ tpc' = s1.tpc
          /\ Observe(s1, [from |-> c, type |-> "EOF", data |-> <<>>])
    /\ UNCHANGED <<round_at_start, drop_lock_sent, timer_left>>

\* main: an event with EPOLLERR | EPOLLHUP and without EPOLLIN
HangUp(c) ==
    /\ conn[c] = "closed"
    /\ LET s1 == evict_and_schedule(DS, c)
       IN /\ Capped(s1)
          /\ SetD(s1)
          /\ tpc' = s1.tpc
          /\ Observe(s1, [from |-> c, type |-> "HUP", data |-> <<>>])
    /\ UNCHANGED <<round_at_start, drop_lock_sent, timer_left>>

\* the peer closes its end of the connection
PeerClose(c) ==
    /\ conn[c] = "open"
    /\ conn' = [conn EXCEPT ![c] = "closed"]
    /\ out' = <<>>
    /\ event' = <<"none", NoConn>>
    /\ UNCHANGED <<dvars, tvars, gvars>>

\* timer_thr_fn: pthread_cond_timedwait reaches its deadline
TimerTimeout ==
    /\ tpc = "wait"
    /\ timer_left = 0
    /\ tpc' = "timedout"
    /\ out' = <<>>
    /\ event' = <<"none", NoConn>>
    /\ UNCHANGED <<dvars, round_at_start, drop_lock_sent, timer_left, conn, gvars>>

\* timer_thr_fn: pthread_cond_timedwait wakes up with nobody having signalled
TimerSpurious ==
    /\ tpc = "wait"
    /\ tpc' = "signaled"
    /\ out' = <<>>
    /\ event' = <<"none", NoConn>>
    /\ UNCHANGED <<dvars, round_at_start, drop_lock_sent, timer_left, conn, gvars>>

\* timer_thr_fn: from the return of pthread_cond_timedwait to the next call of it
TimerRun ==
    /\ tpc \in {"timedout", "signaled"}
    /\ LET s == DS
           ev == [from |-> NoConn, type |-> "TIMER", data |-> <<>>]
       IN IF tpc = "timedout"
          THEN IF lock_held = 0 \/ drop_lock_sent = 1
               THEN TimerArm(s, drop_lock_sent) /\ Observe(s, ev)
               ELSE IF round_at_start # scheduling_round
               THEN TimerArm(s, 0) /\ Observe(s, ev)
               ELSE /\ requests # <<>>
                    /\ LET h == Head(requests)
                       IN IF SendOk(s, h)
                          THEN LET s1 == send_message(s, h, DROP_LOCK)
                               IN TimerArm(s1, 1) /\ Observe(s1, ev)
                          ELSE LET s1 == try_schedule(delete_client(s, h))
                               IN TimerArm(s1, 0) /\ Observe(s1, ev)
          ELSE IF must_reset_timer = 1
               THEN TimerArm(s, 0) /\ Observe(s, ev)
               ELSE /\ tpc' = "wait"
                    /\ out' = <<>>
                    /\ event' = <<"none", NoConn>>
                    /\ UNCHANGED <<dvars, round_at_start, drop_lock_sent, timer_left,
                                   conn, gvars>>

\* time passes: up to the timer's deadline, up to MaxTQ seconds before it, or
\* by one second within the last MaxTQ seconds.  The timer thread runs as soon
\* as it is woken, so time stands still while it is runnable
Tick(d) ==
    /\ tpc = "wait"
    /\ d >= 1
    /\ d <= timer_left
    /\ d = 1 => timer_left <= MaxTQ + 1
    /\ timer_left' = timer_left - d
    /\ early' = IF tenant = NoConn THEN 0 ELSE Max(-MaxTQ, early - d)
    /\ due' = IF tenant = NoConn THEN 0 ELSE Max(-1, due - d)
    /\ out' = <<>>
    /\ event' = <<"none", NoConn>>
    /\ UNCHANGED <<dvars, round_at_start, drop_lock_sent, tpc, conn, tenant, pend, drops>>

\* the deadline of pthread_cond_timedwait, with the passing of time left out:
\* the wait can time out whenever the timer thread is in it
TimerExpire ==
    /\ tpc = "wait"
    /\ tpc' = "timedout"
    /\ out' = <<>>
    /\ event' = <<"none", NoConn>>
    /\ UNCHANGED <<dvars, round_at_start, drop_lock_sent, timer_left, conn, gvars>>

\* the daemon and its peers, with no client process of client.c attached
NoClient == UNCHANGED <<cvars, hvars, kvars, rvars, wvars, bvars, procs>>

Next ==
    \/ \E c \in Conns : Accept(c) /\ NoClient
    \/ \E c \in Conns : \E m \in PeerMsgs : Recv(c, m) /\ NoClient
    \/ \E c \in Conns : RecvFail(c) /\ NoClient
    \/ \E c \in Conns : HangUp(c) /\ NoClient
    \/ \E c \in Conns : PeerClose(c) /\ NoClient
    \/ TimerExpire /\ NoClient
    \/ TimerSpurious /\ NoClient
    \/ TimerRun /\ NoClient

Spec == Init /\ [][Next]_vars

TConns == 1..NTimed

NextTimed ==
    \/ \E c \in TConns : Accept(c) /\ NoClient
    \/ \E c \in TConns : \E m \in TimedMsgs : Recv(c, m) /\ NoClient
    \/ \E c \in TConns : RecvFail(c) /\ NoClient
    \/ TimerTimeout /\ NoClient
    \/ TimerSpurious /\ NoClient
    \/ TimerRun /\ NoClient
    \/ \E d \in {1, timer_left - MaxTQ, timer_left} : Tick(d) /\ NoClient

SpecTimed == Init /\ [][NextTimed]_vars

(* ------------------------- the client process ------------------------- *)
\* what a daemon step does to the client's connection: the frames it sent to
\* the client are queued for it, and an eviction closes the connection
\* (consumed: the step read the frame at the head of to_sched)
DaemonEffect(consumed) ==
    LET evicted == cfd # NoConn /\ conn'[cfd] = "free"
        sent == SelectSeq(out', LAMBDA e : e.to = cfd)
    IN /\ cfd' = IF evicted THEN NoConn ELSE cfd
       /\ to_client' = to_client \o [i \in 1..Len(sent) |-> sent[i].type]
       /\ Len(to_client') <= MaxChan
       /\ to_sched' = IF evicted THEN <<>>
                      ELSE IF consumed THEN Tail(to_sched) ELSE to_sched
       /\ UNCHANGED <<cstate, c_scheduler_on, own_lock, need_lock, did_work, apc,
                      inflight, since_drop, hvars, kvars, bvars, procs>>

\* a client step leaves the daemon as it is
NoDaemon ==
    /\ out' = <<>>
    /\ event' = <<"none", NoConn>>
    /\ UNCHANGED <<dvars, tvars, conn, gvars, hvars, kvars, bvars, procs>>

\* write_whole(rsock, ...) of one frame, when the connection is up
Write(type) ==
    /\ cfd # NoConn
    /\ Len(to_sched) < MaxChan
    /\ to_sched' = Append(to_sched, type)

\* client_fn: nvshare_connect and the REGISTER frame; the daemon accepts
ClientStart ==
    /\ cstate = "none"
    /\ \E c \in Conns : Accept(c) /\ cfd' = c
    /\ cstate' = "init"
    /\ to_sched' = <<REGISTER>>
    /\ UNCHANGED <<to_client, c_scheduler_on, own_lock, need_lock, did_work, apc,
                   inflight, since_drop, hvars, kvars, bvars, procs>>

\* main: EPOLLIN on the client's socket, a full frame
RecvClient ==
    /\ cfd # NoConn
    /\ to_sched # <<>>
    /\ LET m == [type |-> Head(to_sched), data |-> <<>>]
           s1 == process_msg(DS, cfd, m, RandStream(cfd))
       IN /\ Capped(s1)
          /\ SetD(s1)
          /\ tpc' = s1.tpc
          /\ Observe(s1, [from |-> cfd, type |-> m.type, data |-> <<>>])
    /\ UNCHANGED <<round_at_start, drop_lock_sent, timer_left>>
    /\ DaemonEffect(TRUE)

\* the process exits: log_fatal or true_or_exit in any of its threads
Exit ==
    /\ cstate' = "dead"
    /\ conn' = IF cfd # NoConn THEN [conn EXCEPT ![cfd] = "closed"] ELSE conn
    /\ out' = <<>>
    /\ event' = <<"none", NoConn>>
    /\ UNCHANGED <<dvars, tvars, gvars, hvars, kvars, bvars, procs>>
    /\ UNCHANGED <<cfd, to_sched, to_client, c_scheduler_on, own_lock, need_lock,
                   did_work, apc, inflight, since_drop>>

\* client_fn: the initial status is read, and the switch on it
WorkerInit ==
    /\ cstate = "init"
    /\ to_client # <<>>
    /\ LET in_msg == Head(to_client)
       IN IF in_msg \in {SCHED_ON, SCHED_OFF}
          THEN /\ cstate' = "run"
               /\ c_scheduler_on' = IF in_msg = SCHED_ON THEN 1 ELSE 0
               /\ own_lock' = IF in_msg = SCHED_ON THEN 0 ELSE 1
               /\ need_lock' = 0
               /\ to_client' = Tail(to_client)
               /\ NoDaemon
               /\ UNCHANGED <<cfd, to_sched, did_work, apc, inflight, since_drop>>
          ELSE Exit

\* client_fn, case DROP_LOCK: the value own_lock is given ("Block work submission")
on_drop_lock_keeps(ol) == ol
on_drop_lock(ol) == 0

\* client_fn: one turn of its loop, a frame read and handled.  The frame leaves
\* the socket when the handler takes global_mutex: the read by itself changes
\* nothing the other threads see
WorkerHandle ==
    /\ cstate = "run"
    /\ to_client # <<>>
    /\ to_client' = Tail(to_client)
    /\ LET in_msg == Head(to_client)
       IN CASE in_msg = LOCK_OK ->
                 /\ need_lock' = 0
                 /\ own_lock' = 1
                 /\ did_work' = 1
                 /\ since_drop' = "none"
                 /\ UNCHANGED <<c_scheduler_on, inflight, to_sched>>
            [] in_msg = DROP_LOCK ->
                 IF own_lock = 1
                 THEN /\ own_lock' = on_drop_lock(own_lock)
                      /\ inflight' = 0
                      /\ Write(LOCK_RELEASED)
                      /\ since_drop' = "handled"
                      /\ UNCHANGED <<c_scheduler_on, need_lock, did_work>>
                 ELSE UNCHANGED <<c_scheduler_on, own_lock, need_lock, did_work,
                                  inflight, to_sched, since_drop>>
            [] in_msg = SCHED_ON ->
                 /\ IF c_scheduler_on = 0
                    THEN c_scheduler_on' = 1 /\ need_lock' = 0 /\ own_lock' = 0
                    ELSE UNCHANGED <<c_scheduler_on, need_lock, own_lock>>
                 /\ UNCHANGED <<did_work, inflight, to_sched, since_drop>>
            [] in_msg = SCHED_OFF ->
                 /\ IF c_scheduler_on = 1
                    THEN c_scheduler_on' = 0 /\ own_lock' = 1 /\ need_lock' = 0
                    ELSE UNCHANGED <<c_scheduler_on, need_lock, own_lock>>
                 /\ since_drop' = IF since_drop = "handled" THEN "off" ELSE since_drop
                 /\ UNCHANGED <<did_work, inflight, to_sched>>
            [] OTHER ->
                 UNCHANGED <<c_scheduler_on, own_lock, need_lock, did_work, inflight,
                             to_sched, since_drop>>
    /\ NoDaemon
    /\ UNCHANGED <<cstate, cfd, apc>>

\* the while (own_lock == 0) test of continue_with_lock
must_wait_never(ol) == FALSE
must_wait(ol) == ol = 0

\* an application thread in continue_with_lock, the mutex taken: from the call,
\* or from a return of pthread_cond_wait, to the next pthread_cond_wait or to
\* the return of the function
Gate(t) ==
    /\ cstate = "run"
    /\ apc[t] \in {"idle", "wait"}
    /\ IF must_wait(own_lock)
       THEN /\ IF need_lock = 0
               THEN need_lock' = 1 /\ Write(REQ_LOCK)
               ELSE UNCHANGED <<need_lock, to_sched>>
            /\ apc' = [apc EXCEPT ![t] = "wait"]
            /\ UNCHANGED did_work
       ELSE /\ did_work' = 1
            /\ apc' = [apc EXCEPT ![t] = "passed"]
            /\ UNCHANGED <<need_lock, to_sched>>
    /\ NoDaemon
    /\ UNCHANGED <<cstate, cfd, to_client, c_scheduler_on, own_lock, inflight, since_drop>>

\* hook.c: the real driver entry point is called after continue_with_lock
Launch(t) ==
    /\ cstate = "run"
    /\ apc[t] = "passed"
    /\ apc' = [apc EXCEPT ![t] = "idle"]
    /\ inflight' = 1
    /\ NoDaemon
    /\ UNCHANGED <<cstate, cfd, to_sched, to_client, c_scheduler_on, own_lock, need_lock,
                   did_work, since_drop>>

\* the GPU completes the work submitted to it
WorkDone ==
    /\ cstate = "run"
    /\ inflight = 1
    /\ inflight' = 0
    /\ NoDaemon
    /\ UNCHANGED <<cstate, cfd, to_sched, to_client, c_scheduler_on, own_lock, need_lock,
                   did_work, apc, since_drop>>

\* release_early_fn after ETIMEDOUT without the test of scheduler_on
releaser_skips_unless_held(son, ol, dw) == ol = 0 \/ dw = 1

\* release_early_fn after ETIMEDOUT without the test of did_work
releaser_skips_if_not_held(son, ol, dw) == son = 0 \/ ol = 0

\* release_early_fn after ETIMEDOUT: the two tests that restart the loop
releaser_skips(son, ol, dw) == son = 0 \/ ol = 0 \/ dw = 1

\* release_early_fn: pthread_cond_timedwait times out.  idle: what the probe
\* finds (the utilization NVML reports is 0, or cuCtxSynchronize took less
\* than 100 ms); sync: the probe is the one that calls cuda_sync_context
ReleaserTimeout(idle, sync) ==
    /\ cstate = "run"
    /\ did_work' = 0
    /\ IF releaser_skips(c_scheduler_on, own_lock, did_work)
       THEN UNCHANGED <<own_lock, to_sched, inflight>>
       ELSE /\ inflight' = IF sync THEN 0 ELSE inflight
            /\ IF idle
               THEN Write(LOCK_RELEASED) /\ own_lock' = 0
               ELSE UNCHANGED <<own_lock, to_sched>>
    /\ NoDaemon
    /\ UNCHANGED <<cstate, cfd, to_client, c_scheduler_on, need_lock, apc, since_drop>>

\* frames of the peers that are not the client process: nvsharectl
ClientPeerMsgs ==
    [type : {SCHED_ON, SCHED_OFF}, data : {<<>>}]

\* a step of the system of SpecClient, which has neither the releaser's clock
\* nor the rate control
NoGate == UNCHANGED <<rvars, wvars>>

\* the client process is the first to connect; nvsharectl runs connect, send
\* their frame and close
NextClient ==
    \/ ClientStart /\ NoGate
    \/ RecvClient /\ NoGate
    \/ WorkerInit /\ NoGate
    \/ WorkerHandle /\ NoGate
    \/ \E t \in Threads : Gate(t) /\ NoGate
    \/ \E t \in Threads : Launch(t) /\ NoGate
    \/ WorkDone /\ NoGate
    \/ \E idle, sync \in BOOLEAN : ReleaserTimeout(idle, sync) /\ NoGate
    \/ \E c \in Conns : cstate # "none" /\ Accept(c) /\ DaemonEffect(FALSE) /\ NoGate
    \/ \E c \in Conns \ {cfd} : \E m \in ClientPeerMsgs : Recv(c, m) /\ DaemonEffect(FALSE) /\ NoGate
    \/ \E c \in Conns \ {cfd} : RecvFail(c) /\ DaemonEffect(FALSE) /\ NoGate
    \/ TimerExpire /\ DaemonEffect(FALSE) /\ NoGate
    \/ TimerRun /\ DaemonEffect(FALSE) /\ NoGate

SpecClient == Init /\ [][NextClient]_vars

(* ------------- the client process and the releaser's clock ------------ *)
\* The client process with any peer at the other end of its socket, and with
\* the time of release_early_fn's timed wait.
release_early_check_interval == 5

\* pthread_cond_broadcast(&release_early_cv): the releaser leaves its wait
Signalled(p) == IF p = "wait" THEN "signaled" ELSE p

\* release_early_fn, the top of its loop: did_work is cleared by the caller,
\* timer_end_ts is computed and the thread waits
ReleaserArm ==
    /\ rpc' = "wait"
    /\ rel_left' = release_early_check_interval
    /\ armed' = 0

\* client_fn: nvshare_connect and the REGISTER frame
GateConnect ==
    /\ cstate = "none"
    /\ cstate' = "init"
    /\ cfd' = 1
    /\ to_sched' = <<REGISTER>>
    /\ NoDaemon
    /\ UNCHANGED <<to_client, c_scheduler_on, own_lock, need_lock, did_work, apc,
                   inflight, since_drop, rvars, wvars>>

\* the peer writes a frame to the client
PeerWrites(type) ==
    /\ cstate \in {"init", "run"}
    /\ Len(to_client) < MaxChan
    /\ to_client' = Append(to_client, type)
    /\ NoDaemon
    /\ UNCHANGED <<cstate, cfd, to_sched, c_scheduler_on, own_lock, need_lock, did_work,
                   apc, inflight, since_drop, rvars, wvars>>

\* the peer reads a frame of the client
PeerReads ==
    /\ to_sched # <<>>
    /\ to_sched' = Tail(to_sched)
    /\ NoDaemon
    /\ UNCHANGED <<cstate, cfd, to_client, c_scheduler_on, own_lock, need_lock, did_work,
                   apc, inflight, since_drop, rvars, wvars>>

\* initialize_client: once the initial status is in, release_early_fn starts
GateWorkerInit ==
    /\ WorkerInit
    /\ IF cstate' = "run"
       THEN ReleaserArm /\ quiet' = 0 /\ UNCHANGED yielded
       ELSE UNCHANGED rvars
    /\ UNCHANGED wvars

\* client_fn's loop; LOCK_OK broadcasts release_early_cv
GateWorkerHandle ==
    /\ WorkerHandle
    /\ LET ok == Head(to_client) = LOCK_OK
       IN /\ rpc' = IF ok THEN Signalled(rpc) ELSE rpc
          /\ quiet' = IF ok THEN 0 ELSE quiet
          /\ yielded' = IF ok THEN 0 ELSE yielded
    /\ UNCHANGED <<rel_left, armed, wvars>>

\* continue_with_lock; its return broadcasts release_early_cv
GateThread(t) ==
    /\ Gate(t)
    /\ LET ret == apc'[t] = "passed"
       IN /\ rpc' = IF ret THEN Signalled(rpc) ELSE rpc
          /\ quiet' = IF ret THEN 0 ELSE quiet
    /\ UNCHANGED <<rel_left, armed, yielded, wvars>>

\* release_early_fn: pthread_cond_timedwait reaches timer_end_ts
ReleaserExpire ==
    /\ rpc = "wait"
    /\ rel_left = 0
    /\ rpc' = "timedout"
    /\ NoDaemon
    /\ UNCHANGED <<cvars, rel_left, quiet, armed, yielded, wvars>>

\* release_early_fn: pthread_cond_timedwait wakes up with nobody having signalled
ReleaserSpurious ==
    /\ rpc = "wait"
    /\ rpc' = "signaled"
    /\ NoDaemon
    /\ UNCHANGED <<cvars, rel_left, quiet, armed, yielded, wvars>>

\* a wakeup without did_work, with the deadline computed anew
releaser_resumes_afresh(left) == release_early_check_interval

\* release_early_fn, "goto wait_remainder": the wait is resumed with the
\* timer_end_ts it had
releaser_resumes(left) == left

\* release_early_fn: from the return of pthread_cond_timedwait to the next call
ReleaserRun(idle, sync) ==
    /\ rpc \in {"timedout", "signaled"}
    /\ IF rpc = "timedout"
       THEN /\ ReleaserTimeout(idle, sync) /\ ReleaserArm
            /\ yielded' = IF own_lock' # own_lock THEN 1 ELSE yielded
       ELSE /\ IF did_work = 1
               THEN did_work' = 0 /\ ReleaserArm
               ELSE /\ rpc' = "wait"
                    /\ rel_left' = releaser_resumes(rel_left)
                    /\ UNCHANGED <<did_work, armed>>
            /\ NoDaemon
            /\ UNCHANGED <<cstate, cfd, to_sched, to_client, c_scheduler_on, own_lock,
                           need_lock, apc, inflight, since_drop, yielded>>
    /\ UNCHANGED <<quiet, wvars>>

\* a second passes while the releaser waits; the releaser runs as soon as it
\* is woken
GateTick ==
    /\ rpc = "wait"
    /\ rel_left >= 1
    /\ rel_left' = rel_left - 1
    /\ quiet' = Min(release_early_check_interval, quiet + 1)
    /\ armed' = Min(release_early_check_interval + 1, armed + 1)
    /\ NoDaemon
    /\ UNCHANGED <<cvars, rpc, yielded, wvars>>

NextGate ==
    \/ GateConnect
    \/ \E type \in {LOCK_OK, DROP_LOCK, SCHED_ON, SCHED_OFF} : PeerWrites(type)
    \/ PeerReads
    \/ GateWorkerInit
    \/ GateWorkerHandle
    \/ \E t \in Threads : GateThread(t)
    \/ \E t \in Threads : Launch(t) /\ NoGate
    \/ WorkDone /\ NoGate
    \/ ReleaserExpire
    \/ ReleaserSpurious
    \/ \E idle, sync \in BOOLEAN : ReleaserRun(idle, sync)
    \/ GateTick

SpecGate == Init /\ [][NextGate]_vars

(* ----------------------- hook.c: the memory hooks --------------------- *)
\* arithmetic on size_t
SizeMod == 2 ^ MemBits
SizeT(n) == n % SizeMod

\* what the driver reports as the total memory of the device, and the sizes
\* an application asks for
MemTotals == {8, 6}
MemSizes == {1, 2, 5, 11, 15}

RECURSIVE SumSizes(_)
SumSizes(l) == IF l = <<>> THEN 0 ELSE Head(l).size + SumSizes(Tail(l))

\* the memory the driver holds for the application
DevTotal == SumSizes([p \in Ptrs |-> [size |-> dev[p]]])

\* cuMemGetInfo: the value it stores in *free
cuMemGetInfo_free(total) == SizeT(total - MEMINFO_RESERVE_MIB \div MemUnitMiB)

\* insert_cuda_allocation: sum_allocated and the list it leaves
insert_cuda_allocation(sum, list, dptr, bytesize) ==
    [sum |-> SizeT(sum + bytesize),
     list |-> Append(list, [ptr |-> dptr, size |-> bytesize])]

\* remove_cuda_allocation: every entry that starts at rm_ptr is taken out
remove_cuda_allocation(sum, list, rm_ptr) ==
    [sum |-> SizeT(sum - SumSizes(SelectSeq(list, LAMBDA a : a.ptr = rm_ptr))),
     list |-> SelectSeq(list, LAMBDA a : a.ptr # rm_ptr)]

\* the test of cuMemAlloc on the request, in size_t arithmetic
over_limit(sum, bytesize, allocatable) == SizeT(sum + bytesize) > allocatable

\* initialize_libnvshare: the environment decides on single-process
\* oversubscription; bootstrap_cuda loads the real entry points
LoadHook(flag) ==
    /\ hpc = "unloaded"
    /\ hpc' = "ready"
    /\ enable_single_oversub' = flag
    /\ UNCHANGED <<got_max_mem_size, nvshare_size_mem_allocatable, sum_allocated,
                   cuda_allocation_list, dev, mcall>>

\* cuMemAlloc(dptr, bytesize).  total: what the driver's cuMemGetInfo reports
\* on the first call; ok, p: the outcome of real_cuMemAllocManaged, which can
\* succeed only for a size the driver can back, at a pointer not in use
cuMemAlloc(bytesize, total, ok, p) ==
    IF hpc = "unloaded"
    THEN /\ mcall' = [op |-> "cuMemAlloc", size |-> bytesize,
                      ret |-> "CUDA_ERROR_NOT_INITIALIZED", driver |-> FALSE]
         /\ UNCHANGED <<hpc, enable_single_oversub, got_max_mem_size,
                        nvshare_size_mem_allocatable, sum_allocated,
                        cuda_allocation_list, dev>>
    ELSE LET allocatable == IF got_max_mem_size = 0 THEN cuMemGetInfo_free(total)
                            ELSE nvshare_size_mem_allocatable
         IN /\ got_max_mem_size' = 1
            /\ nvshare_size_mem_allocatable' = allocatable
            /\ UNCHANGED <<hpc, enable_single_oversub>>
            /\ IF over_limit(sum_allocated, bytesize, allocatable)
                  /\ enable_single_oversub = 0
               THEN /\ mcall' = [op |-> "cuMemAlloc", size |-> bytesize,
                                 ret |-> "CUDA_ERROR_OUT_OF_MEMORY", driver |-> FALSE]
                    /\ UNCHANGED <<sum_allocated, cuda_allocation_list, dev>>
               ELSE IF ok
               THEN /\ dev[p] = 0 /\ DevTotal + bytesize <= DriverCapacity
                    /\ dev' = [dev EXCEPT ![p] = bytesize]
                    /\ LET r == insert_cuda_allocation(sum_allocated,
                                                       cuda_allocation_list, p, bytesize)
                       IN sum_allocated' = r.sum /\ cuda_allocation_list' = r.list
                    /\ mcall' = [op |-> "cuMemAlloc", size |-> bytesize,
                                 ret |-> "CUDA_SUCCESS", driver |-> TRUE]
               ELSE /\ mcall' = [op |-> "cuMemAlloc", size |-> bytesize,
                                 ret |-> "CUDA_ERROR_OUT_OF_MEMORY", driver |-> TRUE]
                    /\ UNCHANGED <<sum_allocated, cuda_allocation_list, dev>>

\* the totals an application can be told by cuMemGetInfo: those of MemTotals,
\* and that of a device with less memory than the reserve
InfoTotals == MemTotals \cup {1}

\* cuMemGetInfo(free, total) called by the application.  total: what
\* real_cuMemGetInfo stores in *total; ok: whether it succeeds.  The record of
\* the call keeps the two values the application reads, *free and *total
cuMemGetInfo(total, ok) ==
    /\ mcall' = IF hpc = "unloaded"
                THEN [op |-> "cuMemGetInfo", size |-> 0,
                      ret |-> "CUDA_ERROR_NOT_INITIALIZED", driver |-> FALSE]
                ELSE [op |-> "cuMemGetInfo", size |-> cuMemGetInfo_free(total),
                      ret |-> IF ok THEN "CUDA_SUCCESS" ELSE "CUDA_ERROR_UNKNOWN",
                      driver |-> TRUE, total |-> total]
    /\ UNCHANGED <<hpc, enable_single_oversub, got_max_mem_size,
                   nvshare_size_mem_allocatable, sum_allocated,
                   cuda_allocation_list, dev>>

\* cuMemFree(dptr): real_cuMemFree succeeds on the start of a live allocation
cuMemFree(p) ==
    IF hpc = "unloaded"
    THEN /\ mcall' = [op |-> "cuMemFree", size |-> 0,
                      ret |-> "CUDA_ERROR_NOT_INITIALIZED", driver |-> FALSE]
         /\ UNCHANGED <<hpc, enable_single_oversub, got_max_mem_size,
                        nvshare_size_mem_allocatable, sum_allocated,
                        cuda_allocation_list, dev>>
    ELSE /\ UNCHANGED <<hpc, enable_single_oversub, got_max_mem_size,
                        nvshare_size_mem_allocatable>>
         /\ IF dev[p] # 0
            THEN /\ dev' = [dev EXCEPT ![p] = 0]
                 /\ LET r == remove_cuda_allocation(sum_allocated,
                                                    cuda_allocation_list, p)
                    IN sum_allocated' = r.sum /\ cuda_allocation_list' = r.list
                 /\ mcall' = [op |-> "cuMemFree", size |-> dev[p],
                              ret |-> "CUDA_SUCCESS", driver |-> TRUE]
            ELSE /\ mcall' = [op |-> "cuMemFree", size |-> 0,
                              ret |-> "CUDA_ERROR_INVALID_VALUE", driver |-> TRUE]
                 /\ UNCHANGED <<sum_allocated, cuda_allocation_list, dev>>

\* the application's calls into the memory hooks, one at a time
NoSched ==
    UNCHANGED <<dvars, tvars, conn, out, event, gvars, cvars, rvars, wvars, bvars,
                procs>>

NextMem ==
    \/ \E flag \in {0, 1} : LoadHook(flag) /\ NoSched /\ UNCHANGED kvars
    \/ \E b \in MemSizes, total \in MemTotals, ok \in BOOLEAN, p \in Ptrs :
          cuMemAlloc(b, total, ok, p) /\ NoSched /\ UNCHANGED kvars
    \/ \E p \in Ptrs : cuMemFree(p) /\ NoSched /\ UNCHANGED kvars
    \/ \E total \in InfoTotals, ok \in BOOLEAN :
          cuMemGetInfo(total, ok) /\ NoSched /\ UNCHANGED kvars

SpecMem == Init /\ [][NextMem]_vars

(* --------------------------- cli.c: nvsharectl ------------------------ *)
\* the command lines tried
SArgs == {"absent", "on", "off", "maybe"}
TTexts == {<<"5">>, <<"1", "2">>, <<"0">>, <<"-", "3">>, <<"2", "x">>, <<>>,
           <<"0", "1", "0">>}
TArgs == {NoArgs.T} \cup [form : {"short", "long"}, text : TTexts]
CliArgs == [S : SArgs, T : TArgs, h : BOOLEAN]

\* xopt: the option -T / --set-tq.  err: xopt reports an error (a value that
\* is missing or looks like an option, or that strtol does not consume
\* whole); set: cmdline_scheduler_tq is assigned val, (int) strtol(text, &p, 0)
xopt_set_tq(T) ==
    IF T.form = "absent" THEN [err |-> FALSE, set |-> FALSE, val |-> 0]
    ELSE IF T.form = "short" /\ T.text # <<>> /\ Head(T.text) = "-"
    THEN [err |-> TRUE, set |-> FALSE, val |-> 0]
    ELSE IF T.form = "long" /\ T.text = <<>>
    THEN [err |-> TRUE, set |-> FALSE, val |-> 0]
    ELSE IF T.text = <<>> THEN [err |-> FALSE, set |-> FALSE, val |-> 0]
    ELSE LET r == strtoll(T.text)
         IN [err |-> r.end # Len(T.text), set |-> TRUE, val |-> r.val]

\* snprintf(msg.data, MSG_DATA_LEN, "%lld", n)
RECURSIVE DecimalDigits(_)
DecimalDigits(n) ==
    IF n < 10 THEN <<DigitChars[n + 1]>>
    ELSE DecimalDigits(n \div 10) \o <<DigitChars[(n % 10) + 1]>>
snprintf_lld(n) == IF n < 0 THEN <<"-">> \o DecimalDigits(-n) ELSE DecimalDigits(n)

\* the process is started with a command line
CliExec(a) ==
    /\ kpc = "none"
    /\ kpc' = "parse"
    /\ argv' = a
    /\ UNCHANGED <<config, actions_done, cli_sent, cli_failed, cli_help, cli_exit>>

\* log_fatal, or true_or_exit on a false condition: exit(1)
CliFatal(what) ==
    /\ kpc' = "exited"
    /\ cli_exit' = 1
    /\ cli_failed' = cli_failed \cup {what}

\* main, up to xopt_parse.  config.help is assigned only when -h is given:
\* without -h the field keeps whatever the stack held (garbage)
CliParse(garbage) ==
    /\ kpc = "parse"
    /\ LET r == xopt_set_tq(argv.T)
       IN IF r.err
          THEN CliFatal("args") /\ UNCHANGED config
          ELSE /\ config' = [cmdline_scheduler_tq |-> IF r.set THEN r.val ELSE 0,
                             cmdline_anti_thrash |-> IF argv.S = "absent" THEN "NULL"
                                                     ELSE argv.S,
                             help |-> IF argv.h THEN TRUE ELSE garbage]
               /\ kpc' = "status"
               /\ UNCHANGED <<cli_failed, cli_exit>>
    /\ UNCHANGED <<argv, actions_done, cli_sent, cli_help>>

\* change_status / change_tq after the frame is built: connect, write, close.
\* A failed connect is fatal; a failed write is only reported by log_info
CliSend(frame, connect_ok, write_ok) ==
    IF ~connect_ok
    THEN CliFatal("connect") /\ UNCHANGED <<cli_sent, actions_done>>
    ELSE /\ cli_sent' = IF write_ok THEN Append(cli_sent, frame) ELSE cli_sent
         /\ cli_failed' = IF write_ok THEN cli_failed ELSE cli_failed \cup {"send"}
         /\ actions_done' = actions_done + 1
         /\ UNCHANGED cli_exit

\* main: the block of --anti-thrash
CliStatus(connect_ok, write_ok) ==
    /\ kpc = "status"
    /\ IF config.cmdline_anti_thrash = "NULL"
       THEN /\ kpc' = "tq"
            /\ UNCHANGED <<cli_sent, cli_failed, actions_done, cli_exit>>
       ELSE IF config.cmdline_anti_thrash \notin {"on", "off"}
       THEN CliFatal("args") /\ UNCHANGED <<cli_sent, actions_done>>
       ELSE /\ CliSend([type |-> IF config.cmdline_anti_thrash = "on"
                                 THEN SCHED_ON ELSE SCHED_OFF,
                        data |-> <<>>], connect_ok, write_ok)
            /\ kpc' = IF connect_ok THEN "tq" ELSE "exited"
    /\ UNCHANGED <<argv, config, cli_help>>

\* main: the block of --set-tq
CliTq(connect_ok, write_ok) ==
    /\ kpc = "tq"
    /\ IF config.cmdline_scheduler_tq = 0
       THEN /\ kpc' = "help"
            /\ UNCHANGED <<cli_sent, cli_failed, actions_done, cli_exit>>
       ELSE IF config.cmdline_scheduler_tq <= 0
       THEN CliFatal("args") /\ UNCHANGED <<cli_sent, actions_done>>
       ELSE /\ CliSend([type |-> SET_TQ,
                        data |-> snprintf_lld(config.cmdline_scheduler_tq)],
                       connect_ok, write_ok)
            /\ kpc' = IF connect_ok THEN "help" ELSE "exited"
    /\ UNCHANGED <<argv, config, cli_help>>

\* main: the help block and the return
CliFinish ==
    /\ kpc = "help"
    /\ kpc' = "exited"
    /\ cli_help' = (config.help \/ actions_done = 0)
    /\ cli_exit' = 0
    /\ UNCHANGED <<argv, config, actions_done, cli_sent, cli_failed>>

NextCli ==
    \/ \E a \in CliArgs : CliExec(a) /\ NoSched /\ UNCHANGED hvars
    \/ \E g \in BOOLEAN : CliParse(g) /\ NoSched /\ UNCHANGED hvars
    \/ \E c, w \in BOOLEAN : CliStatus(c, w) /\ NoSched /\ UNCHANGED hvars
    \/ \E c, w \in BOOLEAN : CliTq(c, w) /\ NoSched /\ UNCHANGED hvars
    \/ CliFinish /\ NoSched /\ UNCHANGED hvars

SpecCli == Init /\ [][NextCli]_vars

(* --------------- hook.c: the kernel submission rate control ----------- *)
KERN_SYNC_DURATION_BIG == 10
KERN_SYNC_WINDOW_STEPDOWN_THRESH == 1
KERN_SYNC_WINDOW_MAX == 2048

\* cuda_sync_duration.tv_sec of a synchronization: below the step-down
\* threshold, between the two thresholds, and at the big one
SyncSecs == {0, 1, 10}

\* the window update without the branch of KERN_SYNC_DURATION_BIG
adjust_window_no_big(w, d) ==
    IF d >= KERN_SYNC_WINDOW_STEPDOWN_THRESH THEN Max(w \div 2, 1)
    ELSE Min(w * 2, KERN_SYNC_WINDOW_MAX)

\* cuLaunchKernel: the window after a synchronization that took d seconds
adjust_window(w, d) ==
    IF d >= KERN_SYNC_DURATION_BIG THEN 1
    ELSE IF d >= KERN_SYNC_WINDOW_STEPDOWN_THRESH THEN Max(w \div 2, 1)
    ELSE Min(w * 2, KERN_SYNC_WINDOW_MAX)

\* a step of the rate control leaves the rest of the system as it is
NoRate ==
    UNCHANGED <<dvars, tvars, conn, out, event, gvars, cvars, hvars, kvars, rvars,
                bvars, procs>>

\* cuLaunchKernel in an initialised process, up to the call of
\* real_cuLaunchKernel: continue_with_lock has returned and no mutex is held
KernelLaunch(t) ==
    /\ lpc[t] = "idle"
    /\ lpc' = [lpc EXCEPT ![t] = "launched"]
    /\ launched_since_sync' = launched_since_sync + 1
    /\ launches' = Min(launches + 1, MaxKernels)
    /\ kwrite' = NoWrite
    /\ UNCHANGED <<kern_since_sync, pending_kernel_window, kcount_mutex, new_window,
                   fast_syncs, fast_next, spc>>

\* cuLaunchKernel: kcount_mutex is taken, kern_since_sync++, and the test of
\* the window; the mutex is dropped at once when the test fails
KernelCount(t) ==
    /\ lpc[t] = "launched"
    /\ kcount_mutex = NoThread
    /\ kern_since_sync' = kern_since_sync + 1
    /\ kwrite' = [by |-> "cuLaunchKernel", held |-> TRUE]
    /\ IF kern_since_sync + 1 >= pending_kernel_window
       THEN kcount_mutex' = t /\ lpc' = [lpc EXCEPT ![t] = "sync"]
       ELSE kcount_mutex' = NoThread /\ lpc' = [lpc EXCEPT ![t] = "idle"]
    /\ UNCHANGED <<pending_kernel_window, new_window, launched_since_sync,
                   fast_syncs, fast_next, launches, spc>>

\* cuLaunchKernel: real_cuCtxSynchronize returns after d seconds, and the new
\* window is computed from the window read now
KernelSync(t, d) ==
    /\ lpc[t] = "sync"
    /\ lpc' = [lpc EXCEPT ![t] = "store"]
    /\ new_window' = [new_window EXCEPT ![t] = adjust_window(pending_kernel_window, d)]
    /\ fast_next' = IF new_window'[t] = 1 THEN 0
                    ELSE IF d < KERN_SYNC_WINDOW_STEPDOWN_THRESH /\ fast_syncs >= 0
                    THEN Min(fast_syncs + 1, MaxFast)
                    ELSE -1
    /\ launched_since_sync' = 0
    /\ kwrite' = NoWrite
    /\ UNCHANGED <<kern_since_sync, pending_kernel_window, kcount_mutex, fast_syncs,
                   launches, spc>>

\* cuLaunchKernel: the new window is stored, kern_since_sync = 0, and the
\* mutex is dropped
KernelStore(t) ==
    /\ lpc[t] = "store"
    /\ pending_kernel_window' = new_window[t]
    /\ kern_since_sync' = 0
    /\ kwrite' = [by |-> "cuLaunchKernel", held |-> kcount_mutex = t]
    /\ kcount_mutex' = NoThread
    /\ lpc' = [lpc EXCEPT ![t] = "idle"]
    /\ new_window' = [new_window EXCEPT ![t] = 0]
    /\ fast_syncs' = fast_next
    /\ fast_next' = 0
    /\ UNCHANGED <<launched_since_sync, launches, spc>>

\* cuda_sync_context, called under global_mutex by the worker that handles
\* DROP_LOCK and by the idle releaser's fallback probe: the window is set to
\* 1 whoever holds kcount_mutex
SyncContext ==
    /\ pending_kernel_window' = 1
    /\ kwrite' = [by |-> "cuda_sync_context", held |-> FALSE]
    /\ fast_syncs' = 0
    /\ UNCHANGED <<kern_since_sync, kcount_mutex, lpc, new_window, launched_since_sync,
                   fast_next, launches>>

NextRate ==
    \/ \E t \in Threads : KernelLaunch(t) /\ NoRate
    \/ \E t \in Threads : KernelCount(t) /\ NoRate
    \/ \E t \in Threads : \E d \in SyncSecs : KernelSync(t, d) /\ NoRate
    \/ \E t \in Threads : KernelStore(t) /\ NoRate
    \/ SyncContext /\ UNCHANGED spc /\ NoRate

SpecRate == Init /\ [][NextRate]_vars

(* ---------- the client process with its rate control: handovers ------- *)
\* The client process of SpecGate without the releaser's clock, its
\* application threads launching kernels through cuLaunchKernel.  A thread in
\* cuda_sync_context holds global_mutex while cuCtxSynchronize runs; threads
\* that are past continue_with_lock go on in cuLaunchKernel meanwhile.
RateIdle ==
    UNCHANGED <<kern_since_sync, pending_kernel_window, kcount_mutex, lpc, new_window,
                launched_since_sync, kwrite, fast_syncs, fast_next, launches>>

\* client_fn: every frame but a DROP_LOCK that finds own_lock = 1
HandoverWorkerHandle ==
    /\ spc = "none"
    /\ to_client # <<>>
    /\ ~(Head(to_client) = DROP_LOCK /\ own_lock = 1)
    /\ WorkerHandle
    /\ NoGate

\* client_fn, case DROP_LOCK with own_lock = 1, up to the cuCtxSynchronize of
\* cuda_sync_context
DropBegin ==
    /\ cstate = "run"
    /\ spc = "none"
    /\ to_client # <<>>
    /\ Head(to_client) = DROP_LOCK /\ own_lock = 1
    /\ to_client' = Tail(to_client)
    /\ own_lock' = on_drop_lock(own_lock)
    /\ SyncContext
    /\ spc' = "worker"
    /\ NoDaemon
    /\ UNCHANGED <<cstate, cfd, to_sched, c_scheduler_on, need_lock, did_work, apc,
                   inflight, since_drop, rvars>>

\* client_fn, case DROP_LOCK: cuCtxSynchronize returns and LOCK_RELEASED is
\* written
DropEnd ==
    /\ spc = "worker"
    /\ spc' = "none"
    /\ inflight' = 0
    /\ Write(LOCK_RELEASED)
    /\ since_drop' = "handled"
    /\ NoDaemon
    /\ RateIdle
    /\ UNCHANGED <<cstate, cfd, to_client, c_scheduler_on, own_lock, need_lock, did_work,
                   apc, rvars>>

\* release_early_fn after ETIMEDOUT, with NVML in use: the tests that restart
\* the loop, the utilization NVML reports, and the release
HandoverReleaser(idle) ==
    /\ spc = "none"
    /\ ReleaserTimeout(idle, FALSE)
    /\ NoGate

\* release_early_fn after ETIMEDOUT, without NVML: up to the cuCtxSynchronize
\* of cuda_sync_context
ProbeBegin ==
    /\ cstate = "run"
    /\ spc = "none"
    /\ ~releaser_skips(c_scheduler_on, own_lock, did_work)
    /\ SyncContext
    /\ spc' = "releaser"
    /\ NoDaemon
    /\ UNCHANGED <<cvars, rvars>>

\* release_early_fn without NVML: cuCtxSynchronize returns; idle: it took
\* less than 100 ms
ProbeEnd(idle) ==
    /\ spc = "releaser"
    /\ spc' = "none"
    /\ inflight' = 0
    /\ did_work' = 0
    /\ IF idle
       THEN Write(LOCK_RELEASED) /\ own_lock' = 0
       ELSE UNCHANGED <<own_lock, to_sched>>
    /\ NoDaemon
    /\ RateIdle
    /\ UNCHANGED <<cstate, cfd, to_client, c_scheduler_on, need_lock, apc, since_drop,
                   rvars>>

\* continue_with_lock, called by a thread that is in no other hooked call
HandoverGate(t) ==
    /\ spc = "none"
    /\ lpc[t] = "idle"
    /\ Gate(t)
    /\ NoGate

\* cuLaunchKernel: real_cuLaunchKernel is called after continue_with_lock
HandoverLaunch(t) ==
    /\ launches < MaxKernels
    /\ Launch(t)
    /\ KernelLaunch(t)
    /\ UNCHANGED rvars

\* cuLaunchKernel: real_cuCtxSynchronize returns, all submitted work is done
HandoverSync(t, d) ==
    /\ KernelSync(t, d)
    /\ inflight' = 0
    /\ NoDaemon
    /\ UNCHANGED <<cstate, cfd, to_sched, to_client, c_scheduler_on, own_lock, need_lock,
                   did_work, apc, since_drop, rvars>>

NextHandover ==
    \/ GateConnect
    \/ \E type \in {SCHED_ON, LOCK_OK, DROP_LOCK} : PeerWrites(type)
    \/ PeerReads
    \/ WorkerInit /\ NoGate
    \/ HandoverWorkerHandle
    \/ DropBegin
    \/ DropEnd
    \/ \E idle \in BOOLEAN : HandoverReleaser(idle)
    \/ ProbeBegin
    \/ \E idle \in BOOLEAN : ProbeEnd(idle)
    \/ \E t \in Threads : HandoverGate(t)
    \/ \E t \in Threads : HandoverLaunch(t)
    \/ \E t \in Threads : KernelCount(t) /\ NoRate
    \/ \E t \in Threads : \E d \in SyncSecs : HandoverSync(t, d)
    \/ \E t \in Threads : KernelStore(t) /\ NoRate
    \/ WorkDone /\ NoGate

SpecHandover == Init /\ [][NextHandover]_vars

(* ------------------- the daemon under fair scheduling ----------------- *)
\* The scheduler stays on: the peers send no status frames.
LiveMsgs == [type : {REGISTER, REQ_LOCK, LOCK_RELEASED}, data : {<<>>}]

\* the holder answers the DROP_LOCK it was sent, and its LOCK_RELEASED is read
HolderAnswers(c) ==
    /\ tenant = c
    /\ drops >= 1
    /\ Recv(c, [type |-> LOCK_RELEASED, data |-> <<>>])

\* the event loop comes to the socket of a peer that has disconnected
PeerGone(c) ==
    /\ conn[c] = "closed"
    /\ RecvFail(c)

NextLive ==
    \/ \E c \in Conns : Accept(c) /\ NoClient
    \/ \E c \in Conns : \E m \in LiveMsgs : Recv(c, m) /\ NoClient
    \/ \E c \in Conns : RecvFail(c) /\ NoClient
    \/ \E c \in Conns : PeerClose(c) /\ NoClient
    \/ TimerExpire /\ NoClient
    \/ TimerSpurious /\ NoClient
    \/ TimerRun /\ NoClient

\* the timer thread runs when it is woken and its deadline comes in the end;
\* the event loop handles what the holder answers and the end of a connection
SpecLive ==
    /\ Init
    /\ [][NextLive]_vars
    /\ WF_vars(TimerRun /\ NoClient)
    /\ SF_vars(TimerExpire /\ NoClient)
    /\ \A c \in Conns : WF_vars(HolderAnswers(c) /\ NoClient)
    /\ \A c \in Conns : WF_vars(PeerGone(c) /\ NoClient)

(* ------------------ the daemon's batches of epoll events -------------- *)
\* One epoll_wait can return several events.  main keeps global_mutex while
\* it goes through them, and each event carries the pointer to the client
\* record that was registered with the fd.
MaxBatch == 2

\* a step of the daemon alone, within a batch
InBatch == UNCHANGED <<cvars, hvars, kvars, rvars, wvars, procs>>

\* the sequences of at most MaxBatch distinct fds out of a set
Batches(S) ==
    {b \in UNION {[1..n -> S] : n \in 1..MaxBatch} :
        \A i, j \in DOMAIN b : i # j => b[i] # b[j]}

\* epoll_wait returns: the peers of b have written a frame or hung up
Poll(b) ==
    /\ ~crashed
    /\ batch = <<>>
    /\ b \in Batches({c \in Conns : conn[c] # "free"})
    /\ batch' = b
    /\ out' = <<>>
    /\ event' = <<"none", NoConn>>
    /\ UNCHANGED <<dvars, tvars, conn, gvars, crashed>>

\* the for loop comes to an event whose client record is in the table
BatchEvent(h) ==
    /\ ~crashed
    /\ batch # <<>>
    /\ conn[Head(batch)] # "free"
    /\ h
    /\ batch' = Tail(batch)
    /\ UNCHANGED crashed

\* the for loop comes to an event whose client record delete_client has freed
\* while it handled an earlier event of the batch: receive_message and
\* delete_client read the freed record and use its fd, which is closed.  The
\* daemon ends (log_fatal on EBADF, or the allocator aborts), or the event is
\* passed over
BatchStale(ends) ==
    /\ ~crashed
    /\ batch # <<>>
    /\ conn[Head(batch)] = "free"
    /\ crashed' = ends
    /\ batch' = IF ends THEN <<>> ELSE Tail(batch)
    /\ out' = <<>>
    /\ event' = <<"STALE", Head(batch)>>
    /\ UNCHANGED <<dvars, tvars, conn, gvars>>

NextBatch ==
    \/ \E c \in Conns : ~crashed /\ batch = <<>> /\ Accept(c) /\ NoClient
    \/ \E b \in Batches(Conns) : Poll(b) /\ InBatch
    \/ \E m \in LiveMsgs : BatchEvent(Recv(Head(batch), m)) /\ InBatch
    \/ BatchEvent(RecvFail(Head(batch))) /\ InBatch
    \/ BatchEvent(HangUp(Head(batch))) /\ InBatch
    \/ \E ends \in BOOLEAN : BatchStale(ends) /\ InBatch
    \/ \E c \in Conns : ~crashed /\ PeerClose(c) /\ NoClient
    \/ ~crashed /\ TimerExpire /\ NoClient
    \/ ~crashed /\ batch = <<>> /\ TimerRun /\ NoClient

SpecBatch == Init /\ [][NextBatch]_vars

(* ----------------------- several client processes --------------------- *)
\* The daemon with a client process of client.c at each connection, each
\* reduced to the variables its lock protocol uses, and nvsharectl runs at
\* the connections without one.

\* a step of the daemon, or of one client process, among several
InPair == UNCHANGED <<cvars, hvars, kvars, rvars, wvars, bvars>>

\* a step of a client process, the daemon not involved
ProcAlone ==
    /\ out' = <<>>
    /\ event' = <<"none", NoConn>>
    /\ UNCHANGED <<dvars, tvars, conn, gvars>>
    /\ InPair

\* what a daemon step does to the client processes: the frames it sent are
\* queued at their sockets, and the frame it read leaves the sender's
Deliver(consumed) ==
    /\ procs' = [d \in Conns |->
          LET p == procs[d]
              sent == SelectSeq(out', LAMBDA e : e.to = d)
          IN IF p.state = "none" THEN p
             ELSE [p EXCEPT !.rx = @ \o [i \in 1..Len(sent) |-> sent[i].type],
                            !.tx = IF d = consumed THEN Tail(@) ELSE @,
                            !.rel = IF d = consumed /\ Head(p.tx) = LOCK_RELEASED
                                    THEN Tail(@) ELSE @]]
    /\ \A d \in Conns : Len(procs'[d].rx) <= MaxChan
    /\ InPair

\* client_fn: nvshare_connect and the REGISTER frame; the daemon accepts
ProcStart(c) ==
    /\ procs[c].state = "none"
    /\ Accept(c)
    /\ procs' = [procs EXCEPT ![c] = [NoProc EXCEPT !.state = "init",
                                                    !.tx = <<REGISTER>>]]
    /\ InPair

\* main: EPOLLIN on the socket of a client process, a full frame
ProcRecv(c) ==
    /\ procs[c].state # "none"
    /\ procs[c].tx # <<>>
    /\ Recv(c, [type |-> Head(procs[c].tx), data |-> <<>>])
    /\ Deliver(c)

\* true_or_exit with the failed condition passed over
true_or_exit_goes_on(condition, p) == p

\* true_or_exit: log_fatal, and with it exit(1), ends the whole process when
\* the condition fails
true_or_exit(condition, p) == IF condition THEN p ELSE NoProc

\* client_fn: the initial status is read, and the switch on it
client_fn_init(p, in_msg) ==
    IF in_msg \in {SCHED_ON, SCHED_OFF}
    THEN [p EXCEPT !.state = "run",
                   !.scheduler_on = IF in_msg = SCHED_ON THEN 1 ELSE 0,
                   !.own_lock = IF in_msg = SCHED_ON THEN 0 ELSE 1,
                   !.need_lock = 0]
    ELSE NoProc

\* client_fn: the switch of its loop
client_fn_switch(p, in_msg) ==
    CASE in_msg = LOCK_OK ->
           [p EXCEPT !.need_lock = 0, !.own_lock = 1, !.oks = @ + 1]
      [] in_msg = DROP_LOCK ->
           IF p.own_lock = 1
           THEN [p EXCEPT !.own_lock = on_drop_lock(p.own_lock),
                          !.tx = Append(@, LOCK_RELEASED),
                          !.rel = Append(@, p.oks),
                          !.last_rel = p.oks]
           ELSE p
      [] in_msg = SCHED_ON ->
           IF p.scheduler_on = 0
           THEN [p EXCEPT !.scheduler_on = 1, !.need_lock = 0, !.own_lock = 0]
           ELSE p
      [] in_msg = SCHED_OFF ->
           IF p.scheduler_on = 1
           THEN [p EXCEPT !.scheduler_on = 0, !.own_lock = 1, !.need_lock = 0]
           ELSE p
      [] OTHER -> p

\* client_fn reads a frame and handles it
ProcHandle(c) ==
    /\ procs[c].state \in {"init", "run"}
    /\ procs[c].rx # <<>>
    /\ LET p == [procs[c] EXCEPT !.rx = Tail(@)]
           q == IF p.state = "init" THEN client_fn_init(p, Head(procs[c].rx))
                ELSE client_fn_switch(p, Head(procs[c].rx))
       IN /\ Len(q.tx) <= MaxChan
          /\ procs' = [procs EXCEPT
                 ![c] = true_or_exit(q.tx # p.tx => conn[c] = "open", q)]
    /\ ProcAlone

\* continue_with_lock, called by an application thread that has to wait
ProcGate(c) ==
    /\ procs[c].state = "run"
    /\ must_wait(procs[c].own_lock)
    /\ procs[c].need_lock = 0
    /\ Len(procs[c].tx) < MaxChan
    /\ procs' = [procs EXCEPT
           ![c] = true_or_exit(conn[c] = "open",
                               [@ EXCEPT !.need_lock = 1, !.tx = Append(@, REQ_LOCK)])]
    /\ ProcAlone

\* release_early_fn times out, did_work is 0 and the probe finds the GPU idle
ProcRelease(c) ==
    /\ procs[c].state = "run"
    /\ ~releaser_skips(procs[c].scheduler_on, procs[c].own_lock, 0)
    /\ Len(procs[c].tx) < MaxChan
    /\ procs' = [procs EXCEPT
           ![c] = true_or_exit(conn[c] = "open",
                               [@ EXCEPT !.own_lock = 0,
                                         !.tx = Append(@, LOCK_RELEASED),
                                         !.rel = Append(@, procs[c].oks),
                                         !.last_rel = procs[c].oks])]
    /\ ProcAlone

\* the application ends, and the process with it
ProcQuit(c) ==
    /\ procs[c].state # "none"
    /\ PeerClose(c)
    /\ procs' = [procs EXCEPT ![c] = NoProc]
    /\ InPair

\* the daemon has closed the connection and client_fn has read the frames
\* that were written before: read_whole comes back short
ProcExit(c) ==
    /\ procs[c].state # "none"
    /\ conn[c] = "free"
    /\ procs[c].rx = <<>>
    /\ procs' = [procs EXCEPT ![c] = true_or_exit(procs[c].rx # <<>>, @)]
    /\ ProcAlone

\* main: a receive on the socket of a client process fails and the daemon
\* evicts the client
EvictsLive(c) ==
    /\ procs[c].state # "none"
    /\ conn[c] = "open"
    /\ RecvFail(c)
    /\ Deliver(NoConn)

\* a connection that nvsharectl has opened
Ctl(c) == procs[c].state = "none" /\ conn[c] = "open"

NextPair ==
    \/ \E c \in Conns : ProcStart(c)
    \/ \E c \in Conns : ProcRecv(c)
    \/ \E c \in Conns : ProcHandle(c)
    \/ \E c \in Conns : ProcGate(c)
    \/ \E c \in Conns : ProcRelease(c)
    \/ \E c \in Conns : ProcQuit(c)
    \/ \E c \in Conns : ProcExit(c)
    \/ \E c \in Conns : EvictsLive(c)
    \/ \E c \in Conns : procs[c].state = "none" /\ Accept(c) /\ NoClient
    \/ \E c \in Conns : \E m \in ClientPeerMsgs : Ctl(c) /\ Recv(c, m) /\ Deliver(NoConn)
    \/ \E c \in Conns : Ctl(c) /\ PeerClose(c) /\ NoClient
    \/ \E c \in Conns : conn[c] = "closed" /\ RecvFail(c) /\ Deliver(NoConn)
    \/ TimerExpire /\ NoClient
    \/ TimerRun /\ Deliver(NoConn)

SpecPair == Init /\ [][NextPair]_vars

(* ------------- several client processes, with fair scheduling --------- *)
\* Client processes that do not end, without nvsharectl.  The daemon handles
\* every frame that waits at a socket, the worker thread of a client reads
\* every frame that waits for it, and the timer thread runs.  Whether an
\* application asks for the lock, stays busy or goes idle is up to the
\* application.
NextPairLive ==
    \/ \E c \in Conns : ProcStart(c)
    \/ \E c \in Conns : ProcRecv(c)
    \/ \E c \in Conns : ProcHandle(c)
    \/ \E c \in Conns : ProcGate(c)
    \/ \E c \in Conns : ProcRelease(c)
    \/ TimerExpire /\ NoClient
    \/ TimerRun /\ Deliver(NoConn)

SpecPairLive ==
    /\ Init
    /\ [][NextPairLive]_vars
    /\ WF_vars(TimerRun /\ Deliver(NoConn))
    /\ SF_vars(TimerExpire /\ NoClient)
    /\ \A c \in Conns : WF_vars(ProcRecv(c))
    /\ \A c \in Conns : WF_vars(ProcHandle(c))

(* ------------- client processes that lose their connection ----------- *)
\* the daemon ends (a log_fatal, a signal): all its sockets are closed
DaemonDies ==
    /\ ~crashed
    /\ crashed' = TRUE
    /\ conn' = [c \in Conns |-> "free"]
    /\ out' = <<>>
    /\ event' = <<"EXIT", NoConn>>
    /\ UNCHANGED <<dvars, tvars, gvars, batch, procs, cvars, hvars, kvars, rvars, wvars>>

\* The worker thread of a client reads every frame that waits for it, up to
\* the end of the stream.
NextDown ==
    \/ \E c \in Conns : ~crashed /\ ProcStart(c)
    \/ \E c \in Conns : ProcRecv(c)
    \/ \E c \in Conns : ProcHandle(c)
    \/ \E c \in Conns : ProcGate(c)
    \/ \E c \in Conns : ProcRelease(c)
    \/ \E c \in Conns : ProcExit(c)
    \/ \E c \in Conns : EvictsLive(c)
    \/ DaemonDies
    \/ ~crashed /\ TimerExpire /\ NoClient
    \/ ~crashed /\ TimerRun /\ Deliver(NoConn)

SpecDown ==
    /\ Init
    /\ [][NextDown]_vars
    /\ \A c \in Conns : WF_vars(ProcHandle(c))
    /\ \A c \in Conns : WF_vars(ProcExit(c))

(* ============================== claims =============================== *)
Pos(s, x) == CHOOSE i \in DOMAIN s : s[i] = x
Sent(type) == {i \in DOMAIN out : out[i].type = type}
SentNext(type) == {i \in DOMAIN out' : out'[i].type = type}

(* C1: whenever lock_held = 1 the request queue is non-empty and its head is
   the client the most recent LOCK_OK went to; no LOCK_OK is sent while
   lock_held = 1, and a step sends at most one LOCK_OK. *)
C1_SingleHolder ==
    /\ lock_held = 1 => requests # <<>> /\ tenant # NoConn /\ Head(requests) = tenant
    /\ \A i \in Sent(LOCK_OK) : out[i].lh = 0
    /\ Cardinality(Sent(LOCK_OK)) <= 1

\* the lock has changed hands: a second grant, to the head of a queue
C1_Witness ==
    /\ lock_held = 1 /\ scheduling_round >= 2
    /\ Sent(LOCK_OK) # {} /\ event[1] = LOCK_RELEASED

(* C2: a tenant that has not been sent DROP_LOCK in its tenure has not held
   the lock for longer than the quantum in effect, counted from its LOCK_OK
   or from the last accepted SET_TQ, whichever is later. *)
C2_DropWhenQuantumElapsed ==
    (tenant # NoConn /\ drops = 0) => due >= 0

(* C3: a DROP_LOCK goes to the tenant, and not before tq seconds have passed
   since the tenant's LOCK_OK, tq being the quantum in effect. *)
C3_NoEarlyDrop ==
    \A i \in Sent(DROP_LOCK) : out[i].to = tenant /\ early <= 0

\* the second half of C3 alone: a DROP_LOCK only ever goes to the tenant
C3_DropToTenant ==
    \A i \in Sent(DROP_LOCK) : out[i].to = tenant

(* C4: grants are first come, first served: when a step sends LOCK_OK to c,
   no client whose REQ_LOCK was accepted before c's is still waiting after
   the step; the clients that stay in the request queue keep their order; and
   a REQ_LOCK from a client that has a request record adds no second record
   and, while the lock is held, leaves the queue as it is. *)
C4_FCFS ==
    [][/\ \A i \in SentNext(LOCK_OK) :
             LET c == out'[i].to
                 surv == Range(pend) \cap Range(pend')
             IN IF c \in Range(pend)
                THEN \A a \in surv : Pos(pend, a) > Pos(pend, c)
                ELSE surv = {}
       /\ \A a, b \in Range(requests) \cap Range(requests') :
             (conn'[a] # "free" /\ conn'[b] # "free" /\ Pos(requests, a) < Pos(requests, b))
                => Pos(requests', a) < Pos(requests', b)
       /\ (event'[1] = REQ_LOCK /\ event'[2] \in Range(requests))
             => /\ Cardinality({i \in DOMAIN requests' : requests'[i] = event'[2]}) <= 1
                /\ lock_held = 1 => requests' = requests]_vars

\* a grant that leaves a later request waiting
C4_Witness == Sent(LOCK_OK) # {} /\ pend # <<>> /\ event[1] = REQ_LOCK

(* C5: when the connection of the lock holder fails (closed, partial frame or
   hang-up) while the scheduler is on, the same step removes the holder, and
   every queued client in front of the first one that can be written to, and
   sends LOCK_OK to that one; with nobody left to grant to, lock_held is 0. *)
C5_EvictHolderAndGrant ==
    [][(/\ event'[1] \in {"EOF", "HUP"}
        /\ lock_held = 1 /\ requests # <<>> /\ Head(requests) = event'[2]
        /\ scheduler_on = 1)
       => LET h == event'[2]
              rest == Tail(requests)
              alive == SelectSeq(rest, LAMBDA x : conn[x] = "open")
          IN /\ conn'[h] = "free" /\ h \notin Range(clients') /\ h \notin Range(requests')
             /\ IF alive = <<>>
                THEN /\ lock_held' = 0 /\ requests' = <<>> /\ SentNext(LOCK_OK) = {}
                     /\ \A x \in Range(rest) : conn'[x] = "free"
                ELSE /\ lock_held' = 1 /\ Head(requests') = Head(alive)
                     /\ \E i \in SentNext(LOCK_OK) : out'[i].to = Head(alive)
                     /\ \A x \in Range(rest) :
                           Pos(rest, x) < Pos(rest, Head(alive)) => conn'[x] = "free"]_vars

\* the holder's connection failed and the queued client was granted the lock
C5_Witness ==
    /\ event[1] = "EOF" /\ conn[event[2]] = "free"
    /\ \E i \in Sent(LOCK_OK) : out[i].to = tenant
    /\ scheduling_round >= 2

\* thread t leaves continue_with_lock in this step
Returns(t) == apc[t] # "passed" /\ apc'[t] = "passed"

(* C6: continue_with_lock returns only in a state with own_lock = 1 or
   scheduler_on = 0: that holds when the thread tests own_lock under the mutex
   and it still holds when the thread releases the mutex. *)
C6_ReturnsOnlyWithLock ==
    [][\A t \in Threads :
         Returns(t) => /\ own_lock = 1 \/ c_scheduler_on = 0
                       /\ own_lock' = 1 \/ c_scheduler_on' = 0]_vars

\* one thread has returned from continue_with_lock after a grant while the
\* other is still in pthread_cond_wait
C6_Witness ==
    /\ c_scheduler_on = 1 /\ own_lock = 1
    /\ \E t, u \in Threads : apc[t] = "passed" /\ apc[u] = "wait"

(* C7, as stated: after the worker has handled a DROP_LOCK with own_lock = 1,
   no continue_with_lock returns until it has handled a LOCK_OK. *)
C7_NoReturnUntilLockOk ==
    [][\A t \in Threads : Returns(t) => since_drop = "none"]_vars

(* C7, amended: after the worker has handled a DROP_LOCK with own_lock = 1, no
   continue_with_lock returns until it has handled a LOCK_OK or a SCHED_OFF. *)
C7_NoReturnUntilLockOkOrSchedOff ==
    [][\A t \in Threads : Returns(t) => since_drop # "handled"]_vars

\* the lock was dropped and a thread that asked for it again is kept waiting
C7_Witness ==
    /\ since_drop = "handled" /\ own_lock = 0 /\ need_lock = 1
    /\ \E t \in Threads : apc[t] = "wait"

(* C8: at most one REQ_LOCK of the client process is outstanding: in flight to
   the daemon, or recorded in the daemon's request queue and not granted. *)
C8_OneOutstandingReqLock ==
    Cardinality({i \in DOMAIN to_sched : to_sched[i] = REQ_LOCK})
      + (IF /\ cfd # NoConn /\ cfd \in Range(requests)
            /\ ~(lock_held = 1 /\ Head(requests) = cfd)
         THEN 1 ELSE 0) <= 1

(* C9: from the LOCK_RELEASED that answers a DROP_LOCK until the client handles
   the next LOCK_OK or SCHED_OFF, no work of the process is in flight on the
   GPU. *)
C9_NothingInFlightAfterRelease ==
    since_drop = "handled" => inflight = 0

(* C10: while scheduler_on = 0 the request queue is empty and lock_held = 0. *)
C10_OffMeansIdle ==
    scheduler_on = 0 => requests = <<>> /\ lock_held = 0

\* the scheduler is off and a REQ_LOCK of a registered client has just been handled
C10_Witness ==
    /\ scheduler_on = 0 /\ scheduling_round >= 1
    /\ event[1] = REQ_LOCK /\ id[event[2]] # NVSHARE_UNREGISTERED_ID

\* no connection has two records in the request queue
NoDupRequests(q) == \A i, j \in DOMAIN q : q[i] = q[j] => i = j

(* C13: each client has at most one record in the request queue, and a
   REQ_LOCK from a client that already has a record there (waiting or
   holding) leaves the queue unchanged. *)
C13_DuplicateReqLockNoEffect ==
    [][/\ NoDupRequests(requests')
       /\ (event'[1] = REQ_LOCK /\ event'[2] \in Range(requests))
             => requests' = requests]_vars

(* C13 as the handler behaves: a REQ_LOCK from a client that already has a
   record never adds one; the queue is unchanged while the lock is held, and
   with the lock free try_schedule runs, which can only drop records from
   the front of the queue, each of a client that cannot be written to. *)
C13_AtMostOneRecord ==
    [][/\ NoDupRequests(requests')
       /\ (event'[1] = REQ_LOCK /\ event'[2] \in Range(requests))
             => \E k \in 0..Len(requests) :
                   /\ requests' = SubSeq(requests, k + 1, Len(requests))
                   /\ \A i \in 1..k : conn[requests[i]] # "open"
                   /\ lock_held = 1 => k = 0]_vars

\* the holder has sent REQ_LOCK again while another client waits (a first
\* REQ_LOCK that puts its sender at the head of the queue is granted at once)
C13_Witness ==
    /\ event[1] = REQ_LOCK /\ Len(requests) = 2
    /\ event[2] = Head(requests) /\ lock_held = 1 /\ Sent(LOCK_OK) = {}

\* the client records whose REGISTER has succeeded
Registered(cl, ids) == {c \in Range(cl) : ids[c] # NVSHARE_UNREGISTERED_ID}

(* C14: the ids of the registered clients are pairwise distinct and none is
   the unregistered sentinel; the id of a client record changes only when the
   record, still unregistered, receives REGISTER, and that REGISTER does
   change it: so an id changes exactly once in the life of a record. *)
C14_UniqueStableIds ==
    [][/\ \A c, d \in Registered(clients', id') : c # d => id'[c] # id'[d]
       /\ \A c \in Range(clients) \cap Range(clients') :
             /\ id'[c] # id[c]
                   => /\ event' = <<REGISTER, c>>
                      /\ id[c] = NVSHARE_UNREGISTERED_ID
                      /\ ~IdClash(DS, id'[c])
             /\ (event' = <<REGISTER, c>> /\ id[c] = NVSHARE_UNREGISTERED_ID)
                   => id'[c] # id[c]]_vars

\* a second client has registered, after a clash with the first client's id
C14_Witness ==
    /\ event[1] = REGISTER
    /\ Cardinality(Registered(clients, id)) = 2
    /\ event[2] \in Registered(clients, id)

(* C15: scheduling_round increases by one in every step in which a LOCK_OK
   is sent successfully, and changes in no other step; no step grants the
   lock twice. *)
C15_RoundCountsGrants ==
    [][/\ Cardinality(SentNext(LOCK_OK)) <= 1
       /\ scheduling_round' = scheduling_round + Cardinality(SentNext(LOCK_OK))]_vars

\* the second grant: the lock went to the next client in the queue
C15_Witness == Sent(LOCK_OK) # {} /\ scheduling_round = 2 /\ lock_held = 1

\* the frame handled in this step breaks the registration protocol: REGISTER
\* on a registered record, or REQ_LOCK / LOCK_RELEASED on an unregistered one
OutOfProtocol(c) ==
    /\ event'[2] = c
    /\ \/ event'[1] = REGISTER /\ id[c] # NVSHARE_UNREGISTERED_ID
       \/ event'[1] \in {REQ_LOCK, LOCK_RELEASED} /\ id[c] = NVSHARE_UNREGISTERED_ID

(* C16: a REGISTER from a registered connection, and a REQ_LOCK or
   LOCK_RELEASED from an unregistered one, evict the sender and nothing is
   sent in reply; an unregistered connection never has a request record, and
   the only frame ever sent to a connection that was unregistered is the
   status reply to its own successful REGISTER (never LOCK_OK, DROP_LOCK or
   a status broadcast). *)
C16_SlamTheDoor ==
    [][/\ \A c \in Conns : OutOfProtocol(c)
             => /\ conn'[c] = "free" /\ c \notin Range(clients')
                /\ c \notin Range(requests')
                /\ out' = <<>>
       /\ \A c \in Range(requests') : id'[c] # NVSHARE_UNREGISTERED_ID
       /\ \A i \in DOMAIN out' :
             LET c == out'[i].to
             IN id[c] = NVSHARE_UNREGISTERED_ID
                   => /\ event' = <<REGISTER, c>>
                      /\ out'[i].type \in {SCHED_ON, SCHED_OFF}
                      /\ id'[c] # NVSHARE_UNREGISTERED_ID
                      /\ \A j \in DOMAIN out' : out'[j].to = c => j = i]_vars

\* an unregistered peer sent REQ_LOCK and was evicted while the lock is held
\* (a registered sender is evicted only by a try_schedule that ends with the
\* lock granted, LOCK_OK in out, or with the lock free)
C16_Witness ==
    /\ event[1] = REQ_LOCK /\ conn[event[2]] = "free" /\ out = <<>>
    /\ lock_held = 1 /\ requests # <<>>

(* C17: a peer that sends a full frame whose type the daemon does not handle
   is evicted silently: its client record is removed, nothing is sent, and
   nothing else of the daemon's state changes. *)
C17_UnknownTypeEvicts ==
    [][event'[1] = UNKNOWN
          => LET c == event'[2]
             IN /\ conn'[c] = "free" /\ c \notin Range(clients')
                /\ out' = <<>>
                /\ clients' = SelectSeq(clients, LAMBDA x : x # c)
                /\ UNCHANGED <<scheduler_on, tq, scheduling_round>>]_vars

\* a status frame (the REGISTER reply, SCHED_ON or SCHED_OFF) is on its way
\* to the client process
StatusInFlight == \E i \in DOMAIN to_client : to_client[i] \in {SCHED_ON, SCHED_OFF}

(* C11: once the client process has read its initial status, whenever it is
   connected and registered and no status frame is in flight to it, its
   scheduler_on equals the daemon's; and whenever its scheduler_on is 0 its
   own_lock is 1, so that continue_with_lock returns without waiting. *)
C11_StatusAgreesOffOwnsLock ==
    cstate = "run"
       => /\ (cfd # NoConn /\ id[cfd] # NVSHARE_UNREGISTERED_ID /\ ~StatusInFlight)
                => c_scheduler_on = scheduler_on
          /\ c_scheduler_on = 0 => own_lock = 1 /\ ~must_wait(own_lock)

\* the scheduler was turned off after the client had been granted the lock,
\* and the client has handled the SCHED_OFF broadcast
C11_Witness ==
    /\ cstate = "run" /\ cfd # NoConn /\ ~StatusInFlight
    /\ c_scheduler_on = 0 /\ scheduler_on = 0 /\ own_lock = 1
    /\ scheduling_round >= 1

(* C12: after the scheduler has been turned off and on again, a LOCK_OK for
   a client answers a REQ_LOCK which that client sent after it received the
   SCHED_ON broadcast; a REQ_LOCK sent before the toggle produces no LOCK_OK.
   Stated at the grant: when the daemon sends LOCK_OK to the client process,
   the client is not still to read a SCHED_ON broadcast (every REQ_LOCK the
   daemon has read by then was written before the client received it). *)
C12_NoGrantForStaleReqLock ==
    [][(cfd # NoConn /\ \E i \in SentNext(LOCK_OK) : out'[i].to = cfd)
          => \A j \in DOMAIN to_client : to_client[j] # SCHED_ON]_vars

(* C18: with single-process oversubscription not enabled, a cuMemAlloc whose
   size added to the tracked sum exceeds the allocatable total returns
   CUDA_ERROR_OUT_OF_MEMORY without calling the driver and leaves the list
   and the sum as they were; after every call the tracked sum is at most the
   allocatable total and is the sum of the sizes of the live allocations. *)
C18_OverLimitRefusedUncalled ==
    [][/\ (/\ hpc = "ready" /\ enable_single_oversub = 0
           /\ mcall'.op = "cuMemAlloc"
           /\ sum_allocated + mcall'.size > nvshare_size_mem_allocatable')
          => /\ mcall'.ret = "CUDA_ERROR_OUT_OF_MEMORY"
             /\ ~mcall'.driver
             /\ UNCHANGED <<sum_allocated, cuda_allocation_list>>
       /\ (enable_single_oversub' = 0 /\ got_max_mem_size' = 1)
          => sum_allocated' <= nvshare_size_mem_allocatable'
       /\ sum_allocated' = DevTotal'
       /\ sum_allocated' = SumSizes(cuda_allocation_list')]_vars

\* the frames the run was asked to send, as main understands its options
CliRequested ==
    (IF config.cmdline_anti_thrash = "on" THEN {SCHED_ON}
     ELSE IF config.cmdline_anti_thrash = "off" THEN {SCHED_OFF} ELSE {})
    \cup (IF config.cmdline_scheduler_tq # 0 THEN {SET_TQ} ELSE {})

(* C19: nvsharectl exits nonzero whenever the validation of its arguments,
   a connect or a send has failed, and exits 0 only when every requested
   message was sent or the help was printed. *)
C19_ExitCodeTellsFailure ==
    cli_exit # -1
       => /\ cli_failed # {} => cli_exit # 0
          /\ cli_exit = 0
                => \/ cli_help
                   \/ \A ty \in CliRequested : \E i \in DOMAIN cli_sent : cli_sent[i].type = ty

\* the text is an integer in decimal, as printf would write it
IsDecimal(text) ==
    LET digits == IF text # <<>> /\ Head(text) = "-" THEN Tail(text) ELSE text
    IN /\ digits # <<>>
       /\ \A i \in DOMAIN digits : IsDigit(digits[i], 10)
       /\ Len(digits) > 1 => digits[1] # "0"
       /\ text # <<"-", "0">>

RECURSIVE DecimalValue(_)
DecimalValue(text) ==
    IF text = <<>> THEN 0
    ELSE IF Head(text) = "-" THEN -DecimalValue(Tail(text))
    ELSE DecimalValue(SubSeq(text, 1, Len(text) - 1)) * 10 + DigitVal(text[Len(text)])

(* C20: for --set-tq N, every N <= 0 is a fatal error of the command line
   (nonzero exit, no SET_TQ sent); a SET_TQ is sent only for N > 0, once,
   and it carries N in decimal. *)
C20_NonPositiveTqFatal ==
    (cli_exit # -1 /\ argv.T.form # "absent" /\ IsDecimal(argv.T.text))
       => LET N == DecimalValue(argv.T.text)
              tqs == {i \in DOMAIN cli_sent : cli_sent[i].type = SET_TQ}
          IN /\ N <= 0 => cli_exit # 0 /\ tqs = {}
             /\ tqs # {} => /\ N > 0 /\ Cardinality(tqs) = 1
                            /\ \A i \in tqs : /\ cli_sent[i].data = argv.T.text
                                              /\ strtoll(cli_sent[i].data).val = N

(* C21: within one tenure of the lock the daemon sends DROP_LOCK to the
   holder at most once, whatever timer timeouts, spurious wakeups and SET_TQ
   messages occur during the tenure. *)
C21_OneDropPerTenure ==
    drops <= 1

\* the clients whose record the step deletes
Gone == {c \in Conns : conn[c] # "free" /\ conn'[c] = "free"}

\* the step sends the new status to every registered client
IsBroadcast ==
    /\ event'[1] \in {SCHED_ON, SCHED_OFF}
    /\ scheduler_on' # scheduler_on

(* C24: when a send by the daemon fails (the REGISTER reply, a status
   broadcast, a LOCK_OK grant or a DROP_LOCK), the client it was meant for is
   evicted and no other: a client evicted by a step, other than the one the
   step's event is about, is one the daemon could not send to; every client
   that stays keeps its id, its place in the table and its place in the
   queue relative to the others; a broadcast evicts every registered client
   it cannot reach and reaches every other registered client. *)
C24_SendFailureEvictsThatClientOnly ==
    [][event'[1] # "none" =>
        LET c0 == event'[2]
            stay(c) == c \notin Gone /\ c # c0
        IN /\ \A c \in Gone \ {c0} : ~SendOk(DS, c)
           /\ \A c \in Conns : stay(c) => id'[c] = id[c]
           /\ SelectSeq(clients', stay) = SelectSeq(clients, stay)
           /\ ~(IsBroadcast /\ scheduler_on' = 0)
                 => SelectSeq(requests', stay) = SelectSeq(requests, stay)
           /\ (event'[1] = REGISTER /\ ~has_registered(DS, c0) /\ ~SendOk(DS, c0))
                 => Gone = {c0}
           /\ (event'[1] = "TIMER" /\ Gone # {})
                 => requests # <<>> /\ Head(requests) \in Gone
           /\ SentNext(LOCK_OK) # {}
                 => \A i \in DOMAIN requests :
                       (\A j \in 1..i : ~SendOk(DS, requests[j]) \/ requests[j] = c0)
                          => requests[i] \in Gone \cup {c0}
           /\ IsBroadcast
                 => \A c \in Conns : has_registered(DS, c) =>
                       IF SendOk(DS, c)
                       THEN /\ c \notin Gone
                            /\ \E i \in DOMAIN out' :
                                  /\ out'[i].to = c
                                  /\ out'[i].type = event'[1]
                       ELSE c \in Gone]_vars

\* the timer could not send DROP_LOCK to the holder, which it evicted, and the
\* next client in the queue, whose record was left alone, got the lock
C24_Witness ==
    /\ event[1] = "TIMER"
    /\ Sent(LOCK_OK) # {}
    /\ lock_held = 1

\* the messages nvsharectl sends
Control == {SET_TQ, SCHED_ON, SCHED_OFF}

\* what the daemon does with a control message
Dispatched(m) ==
    /\ (m.type = SET_TQ /\ WellFormedTQ(m.data))
          => tq' = strtoll(m.data).val /\ must_reset_timer' = 1
    /\ m.type = SCHED_ON
          => /\ scheduler_on' = 1
             /\ scheduler_on = 0 =>
                   \A k \in Conns : has_registered(DS, k) /\ SendOk(DS, k) =>
                       \E i \in SentNext(SCHED_ON) : out'[i].to = k
    /\ m.type = SCHED_OFF
          => /\ scheduler_on' = 0 /\ requests' = <<>> /\ lock_held' = 0
             /\ scheduler_on = 1 =>
                   \A k \in Conns : has_registered(DS, k) /\ SendOk(DS, k) =>
                       \E i \in SentNext(SCHED_OFF) : out'[i].to = k

(* C25, as stated: a control message on a connection whose peer has already
   closed is dispatched, and the step leaves the sender's record in place;
   the record goes only at a later readiness event. *)
C25_ClosedPeerDispatchedThenEvicted ==
    [][\A c \in Conns : \A m \in PeerMsgs :
          (conn[c] = "closed" /\ m.type \in Control /\ Recv(c, m))
             => Dispatched(m) /\ c \notin Gone]_vars

(* C25, amended: a control message on a connection whose peer has already
   closed is dispatched before the hang-up is looked at; the step leaves the
   sender's record in place unless the sender is a registered client and the
   message changes the status, in which case the broadcast the message
   causes cannot reach the sender and evicts it. *)
C25_ClosedPeerDispatchedFirst ==
    [][\A c \in Conns : \A m \in PeerMsgs :
          (conn[c] = "closed" /\ m.type \in Control /\ Recv(c, m))
             => /\ Dispatched(m)
                /\ c \in Gone <=> has_registered(DS, c) /\ IsBroadcast]_vars

\* the peer on fd 2 sent SCHED_OFF and closed; the daemon has switched the
\* scheduler off and told the client on fd 1, and the record of fd 2 is
\* still in the table
C25_Witness ==
    /\ event[1] = SCHED_OFF
    /\ conn[event[2]] = "closed"
    /\ id[event[2]] = NVSHARE_UNREGISTERED_ID
    /\ scheduler_on = 0
    /\ Sent(SCHED_OFF) # {}

\* a SET_TQ whose data strtoll does not read to the end changes nothing in the
\* daemon; one it does read sets tq to the value and asks for a timer reset
SetTqHandled(Msgs) ==
    \A c \in Conns : \A m \in Msgs :
        (m.type = SET_TQ /\ Recv(c, m))
           => IF WellFormedTQ(m.data)
              THEN /\ tq' = strtoll(m.data).val
                   /\ must_reset_timer' = 1
                   /\ UNCHANGED <<clients, id, requests, lock_held, scheduler_on,
                                  scheduling_round, conn>>
              ELSE UNCHANGED <<dvars, tvars, conn>>

\* the half of C26 about the data field, over the peers of Spec, which also
\* send data that is not a number
C26_MalformedSetTqIgnored == [][SetTqHandled(PeerMsgs)]_vars

(* C26: a SET_TQ whose data is not a well-formed integer changes nothing in
   the daemon; a well-formed one sets tq to the parsed value and restarts the
   timer, so that the holder is not sent DROP_LOCK before the new quantum has
   passed since the SET_TQ. *)
C26_SetTqRestartsDeadline ==
    [][/\ SetTqHandled(TimedMsgs)
       /\ SentNext(DROP_LOCK) # {} => due' <= 0]_vars

\* the worker thread of the client takes a frame of this type off its socket
\* and handles it in the switch of its loop
WorkerReads(type) ==
    /\ cstate = "run" /\ cstate' = "run"
    /\ to_client # <<>> /\ Head(to_client) = type
    /\ to_client' = Tail(to_client)

\* the daemon is told the status it has; the client is told the status it has
StatusRepeated ==
    /\ \/ event'[1] = SCHED_ON /\ scheduler_on = 1
       \/ event'[1] = SCHED_OFF /\ scheduler_on = 0
       => out' = <<>> /\ UNCHANGED <<dvars, tvars, conn>>
    /\ \/ WorkerReads(SCHED_ON) /\ c_scheduler_on = 1
       \/ WorkerReads(SCHED_OFF) /\ c_scheduler_on = 0
       => UNCHANGED <<own_lock, need_lock, c_scheduler_on, to_sched>>

(* C27: a status change is idempotent.  SCHED_ON handled by the daemon while
   the scheduler is on, or SCHED_OFF while it is off, sends nothing and
   changes no daemon state; a client whose worker reads a status equal to
   its own scheduler_on changes none of own_lock, need_lock, scheduler_on. *)
C27_StatusIdempotent ==
    [][StatusRepeated]_vars

\* nvsharectl has sent SCHED_ON to a daemon that was on: the registered client
\* would have been sent the status by a broadcast, and nothing was sent
C27_Witness ==
    /\ event[1] = SCHED_ON
    /\ scheduler_on = 1
    /\ out = <<>>
    /\ cfd # NoConn /\ id[cfd] # NVSHARE_UNREGISTERED_ID /\ conn[cfd] = "open"
    /\ cstate = "run" /\ c_scheduler_on = 1

\* the worker thread handles one of the four messages that can change own_lock
WorkerHandlesMessage ==
    \E type \in {LOCK_OK, DROP_LOCK, SCHED_ON, SCHED_OFF} : WorkerReads(type)

\* the idle releaser gives the lock back: LOCK_RELEASED is written and own_lock
\* goes from 1 to 0, with the scheduler on and no work seen since the last check
ReleaserReleases ==
    /\ own_lock = 1 /\ own_lock' = 0
    /\ c_scheduler_on = 1 /\ did_work = 0
    /\ to_sched' = Append(to_sched, LOCK_RELEASED)
    /\ to_client' = to_client

(* C23, as stated: once the client is initialised, own_lock changes only in
   a step of the worker thread that handles LOCK_OK, DROP_LOCK, SCHED_ON or
   SCHED_OFF; neither an application thread nor the idle releaser changes
   it. *)
C23_OnlyWorkerChangesOwnLock ==
    [][cstate = "run" /\ own_lock' # own_lock => WorkerHandlesMessage]_vars

(* C23, amended: once the client is initialised, own_lock changes only in a
   step of the worker thread that handles LOCK_OK, DROP_LOCK, SCHED_ON or
   SCHED_OFF, or in the step of the idle releaser that releases the lock
   early, which sets it from 1 to 0; application threads never change it. *)
C23_WorkerOrReleaserChangesOwnLock ==
    [][cstate = "run" /\ own_lock' # own_lock
          => WorkerHandlesMessage \/ ReleaserReleases]_vars

\* the idle releaser has released the lock: the daemon has sent no DROP_LOCK in
\* this tenure and still takes the client for the holder, LOCK_RELEASED is on
\* its way, and own_lock is 0
C23_Witness ==
    /\ cstate = "run" /\ c_scheduler_on = 1
    /\ own_lock = 0 /\ did_work = 0
    /\ to_sched = <<LOCK_RELEASED>> /\ to_client = <<>>
    /\ lock_held = 1 /\ tenant = cfd /\ drops = 0
    /\ since_drop = "none"

\* the idle releaser sends LOCK_RELEASED
ReleaserSends ==
    /\ rpc = "timedout" /\ rpc' = "wait"
    /\ to_sched' = Append(to_sched, LOCK_RELEASED)

(* C22: the idle releaser sends LOCK_RELEASED only with own_lock = 1 and
   scheduler_on = 1, and only when a whole check interval has passed in which
   the worker handled no LOCK_OK and continue_with_lock did not return; this
   holds as well for a LOCK_OK handled after the timed wait has expired and
   before the releaser runs. *)
C22_EarlyReleaseAfterQuietInterval ==
    [][ReleaserSends => /\ own_lock = 1 /\ c_scheduler_on = 1
                        /\ quiet = release_early_check_interval
                        /\ own_lock' = 0]_vars

\* the idle releaser has just released the lock, a whole interval after the
\* worker handled the LOCK_OK; its LOCK_RELEASED is on its way
C22_Witness ==
    /\ yielded = 1
    /\ rpc = "wait" /\ armed = 0
    /\ own_lock = 0 /\ c_scheduler_on = 1
    /\ to_sched # <<>> /\ to_sched[Len(to_sched)] = LOCK_RELEASED
    /\ quiet = release_early_check_interval

\* a timed wait is resumed after a wakeup that nobody asked for: the deadline
\* and everything else the thread keeps stay as they were
SpuriousWakeupResumes ==
    /\ (tpc = "signaled" /\ must_reset_timer = 0 /\ tpc' = "wait")
          => /\ out' = <<>>
             /\ UNCHANGED <<timer_left, round_at_start, drop_lock_sent, dvars>>
    /\ (rpc = "signaled" /\ did_work = 0 /\ rpc' = "wait")
          => UNCHANGED <<rel_left, armed, cvars>>

(* C28: a spurious wakeup of a timed wait leaves its deadline where it was.
   The daemon's timer, woken without must_reset_timer, and the idle releaser,
   woken without did_work, wait again for the deadline they had computed: the
   time left and the time since the deadline was computed always add up to
   the interval, and the releaser's check after a timeout is made exactly one
   interval after the deadline was computed. *)
C28_SpuriousWakeupKeepsDeadline ==
    [][/\ SpuriousWakeupResumes
       /\ rpc' # "off" => rel_left' + armed' = release_early_check_interval
       /\ (rpc = "timedout" /\ rpc' = "wait")
             => armed = release_early_check_interval]_vars

\* the releaser has been woken in the middle of its wait with did_work = 0: no
\* thread has signalled it, and its deadline is the one it computed
C28_Witness ==
    /\ rpc = "signaled" /\ did_work = 0
    /\ own_lock = 1 /\ c_scheduler_on = 1
    /\ armed \in 1..(release_early_check_interval - 1)
    /\ rel_left = release_early_check_interval - armed

(* C29: every write to pending_kernel_window and to kern_since_sync is made
   by a thread that holds kcount_mutex, whichever thread it is: an
   application thread in cuLaunchKernel, the worker handling DROP_LOCK, or
   the idle releaser. *)
C29_WritesUnderKcountMutex ==
    kwrite.by # "none" => kwrite.held

(* C30: pending_kernel_window stays in 1..2048 and kern_since_sync in
   0..2048; the forced synchronization of cuLaunchKernel ends with
   kern_since_sync = 0; and no more than 2048 kernels are launched between
   two consecutive forced synchronizations. *)
WindowInRange ==
    /\ pending_kernel_window \in 1..KERN_SYNC_WINDOW_MAX
    /\ kern_since_sync \in 0..KERN_SYNC_WINDOW_MAX
ForcedSyncResets ==
    \A t \in Threads :
        lpc[t] = "store" /\ lpc'[t] = "idle" => kern_since_sync' = 0
C30_WindowBoundsLaunches ==
    [][/\ WindowInRange'
       /\ ForcedSyncResets
       /\ launched_since_sync' <= KERN_SYNC_WINDOW_MAX]_vars

(* C31: the window a forced synchronization stores is a function of the
   window w it found and of the duration d it measured: 1 when d >= 10 s,
   max(w / 2, 1) when 1 s <= d < 10 s, min(2 * w, 2048) otherwise.  Hence a
   window that k consecutive fast synchronizations made out of a window of 1
   is min(2 ^ k, 2048), and a synchronization of 10 s or more makes the
   window 1 whatever it was. *)
window_after(w, d) ==
    CASE d >= 10 -> 1
      [] d >= 1 /\ d < 10 -> Max(w \div 2, 1)
      [] OTHER -> Min(2 * w, 2048)
C31_WindowUpdate ==
    [][/\ \A t \in Threads : \A d \in SyncSecs :
              KernelSync(t, d) =>
                  new_window'[t] = window_after(pending_kernel_window, d)
       /\ \A t \in Threads :
              KernelStore(t) => pending_kernel_window' = new_window[t]
       /\ fast_syncs' >= 0 =>
              pending_kernel_window' = Min(2 ^ fast_syncs', 2048)]_vars
C31_Witness ==
    \E t \in Threads :
        /\ lpc[t] = "store" /\ new_window[t] = 1
        /\ pending_kernel_window = KERN_SYNC_WINDOW_MAX
        /\ fast_syncs = MaxFast

(* C32: every handover resets the rate control: pending_kernel_window is 1
   when the client writes LOCK_RELEASED, be it the worker answering
   DROP_LOCK or the idle releaser with either of its probes. *)
WritesLockReleased ==
    /\ Len(to_sched') = Len(to_sched) + 1
    /\ to_sched'[Len(to_sched')] = LOCK_RELEASED
C32_HandoverResetsWindow ==
    [][WritesLockReleased => pending_kernel_window' = 1]_vars

(* C33: the daemon is work-conserving: whenever the event loop or the timer
   thread lets go of global_mutex with the scheduler on, a non-empty
   requests list means lock_held = 1, whatever took the head request away
   (LOCK_RELEASED, a closed connection, a failed send, the eviction of the
   holder after a repeated REGISTER). *)
C33_WorkConserving ==
    scheduler_on = 1 /\ requests # <<>> => lock_held = 1

(* C34: no starvation: with the scheduler on, holders that answer DROP_LOCK
   with LOCK_RELEASED or disconnect, and the event loop and the timer thread
   scheduled fairly, every client whose REQ_LOCK the daemon has queued is in
   the end sent LOCK_OK or evicted, even if no other frame ever arrives (the
   runs in which scheduling_round reaches MaxRound are left out). *)
C34_NoStarvation ==
    \A c \in Conns :
        (c \in Range(pend)) ~> (c \notin Range(pend) \/ scheduling_round = MaxRound)

(* C35: while it goes through one batch of events, the event loop never
   receives from, dispatches for or evicts a client record that was evicted
   (freed, its fd closed) earlier in the same batch. *)
C35_NoStaleRecordInBatch ==
    [][batch # <<>> /\ batch' # batch => conn[Head(batch)] # "free"]_vars

\* the client processes that hold the lock by their own variables
Owners ==
    {c \in Conns : /\ procs[c].state = "run"
                   /\ conn[c] = "open"
                   /\ procs[c].scheduler_on = 1
                   /\ procs[c].own_lock = 1}

(* C36: at any time at most one connected client process has own_lock = 1
   together with its scheduler_on = 1. *)
C36_OneOwnerAmongClients == Cardinality(Owners) <= 1

\* the connected client processes with threads parked in continue_with_lock
Parked == {c \in Conns : /\ procs[c].state = "run"
                         /\ conn[c] = "open"
                         /\ procs[c].need_lock = 1}

\* the request of a parked client is on its way, recorded, or answered
RequestAccountedFor ==
    \A c \in Parked :
        \/ REQ_LOCK \in Range(procs[c].tx)
        \/ c \in Range(requests)
        \/ LOCK_OK \in Range(procs[c].rx)
        \/ SCHED_OFF \in Range(procs[c].rx)

\* a step the daemon is due to take would make a grant beyond MaxRound
CutOff ==
    \E c \in Conns :
        /\ procs[c].tx # <<>>
        /\ conn[c] # "free"
        /\ ~Capped(process_msg(DS, c, [type |-> Head(procs[c].tx), data |-> <<>>],
                               RandStream(c)))

(* C37: no lock request is lost.  Whenever a connected client has
   need_lock = 1, a REQ_LOCK of it is in flight to the daemon, or the request
   list holds a record of it, or a LOCK_OK or a SCHED_OFF addressed to it is
   in flight; and so its parked threads do not wait for ever (runs cut off at
   MaxRound grants aside). *)
C37_NoLostRequest ==
    /\ []RequestAccountedFor
    /\ \A c \in Conns : (c \in Parked) ~> (c \notin Parked \/ CutOff)

\* client process c writes a LOCK_RELEASED in this step
Releases(c) ==
    /\ procs[c].state = "run"
    /\ procs'[c].state = "run"
    /\ Len(procs'[c].rel) > Len(procs[c].rel)

\* a LOCK_RELEASED answers a LOCK_OK that no earlier LOCK_RELEASED answered
OncePerLockOk ==
    \A c \in Conns : Releases(c) => procs[c].oks > procs[c].last_rel

\* the worker of c handles a DROP_LOCK while own_lock is 0
StaleDrop(c) ==
    /\ ProcHandle(c)
    /\ procs[c].state = "run"
    /\ Head(procs[c].rx) = DROP_LOCK
    /\ procs[c].own_lock = 0

\* the count of LOCK_OK frames the daemon has sent to the process at c
Grants(c) ==
    procs[c].oks + Cardinality({i \in DOMAIN procs[c].rx : procs[c].rx[i] = LOCK_OK})

\* the daemon handles a LOCK_RELEASED of c that takes a record of c off the list
ReleaseTakesRecord(c) ==
    /\ ProcRecv(c)
    /\ Head(procs[c].tx) = LOCK_RELEASED
    /\ c \in Range(requests)
    /\ c \notin Range(requests')

\* the record taken is the one of the tenure the client released: it has been
\* granted, and no grant to the client is later than the released one
TakesItsOwnTenure(c) ==
    /\ Head(requests) = c
    /\ lock_held = 1
    /\ Grants(c) = Head(procs[c].rel)

(* C38: a client sends LOCK_RELEASED at most once for each LOCK_OK it has
   received, a DROP_LOCK received while own_lock = 0 produces no
   LOCK_RELEASED, and a LOCK_RELEASED handled by the daemon never removes a
   request record of a later tenure or of a later REQ_LOCK of that client. *)
C38_OneReleasePerLockOk ==
    [][\A c \in Conns :
          /\ Releases(c) => procs[c].oks > procs[c].last_rel
          /\ StaleDrop(c) => procs'[c].tx = procs[c].tx
          /\ ReleaseTakesRecord(c) => TakesItsOwnTenure(c)]_vars

\* the client process at c is alive and the daemon has closed its connection
CutLoose(c) == procs[c].state # "none" /\ conn[c] = "free"

(* C39: when the daemon closes a client's connection, or dies, the client's
   worker thread meets the short read and the whole process ends: it does
   not stay alive with own_lock = 1, nor with threads parked in
   continue_with_lock. *)
C39_ClientEndsWithItsConnection ==
    \A c \in Conns : CutLoose(c) ~> procs[c].state = "none"

C39_Witness ==
    \E c \in Conns : CutLoose(c) /\ procs[c].own_lock = 1 /\ procs[c].rx # <<>>

\* the last call was a cuMemGetInfo that reached the driver and succeeded
InfoReported ==
    mcall.op = "cuMemGetInfo" /\ mcall.driver /\ mcall.ret = "CUDA_SUCCESS"

(* C40: cuMemGetInfo reports free = total - 1536 MiB, computed in the
   arithmetic of size_t, and for every total the driver can report the
   reported free value lies between 0 and total. *)
C40_FreeWithinTotal ==
    InfoReported =>
        /\ mcall.size = SizeT(mcall.total - MEMINFO_RESERVE_MIB \div MemUnitMiB)
        /\ mcall.size >= 0
        /\ mcall.size <= mcall.total

====
